---- MODULE Spec2Model ----
(***************************************************************************)
(* Model of the action execution engine of minimalistic-deploy:            *)
(* the run loop (main.work), the action dispatcher (Host.run_action), the  *)
(* expression evaluator, the template renderer, the command builder and    *)
(* the per-host result registry.                                           *)
(*                                                                         *)
(* Texts are sequences of lexemes (tokens): "{{user}}" is one token, a     *)
(* double quote is one token, "(" and ")" are tokens.  Every operation on  *)
(* a Python string that the code performs (find, startswith, slicing,      *)
(* replace, split) is performed here on these token sequences.             *)
(***************************************************************************)
EXTENDS Integers, Sequences, FiniteSets, TLC

\* ------------------------------------------------------------------ bounds
NumHosts == 2
NumActions == 2
NumReplies == 1
RenderFuel == 4
MaxTplLen == 2

\* ------------------------------------------------------- sequence helpers
RECURSIVE FindTok(_, _, _)
\* str.find on tokens: index (1-based) of the first tok at or after i, 0 if none
FindTok(s, tok, i) ==
    IF i > Len(s) THEN 0
    ELSE IF s[i] = tok THEN i
    ELSE FindTok(s, tok, i + 1)

RECURSIVE Flatten(_)
Flatten(ss) ==
    IF ss = <<>> THEN <<>> ELSE Head(ss) \o Flatten(Tail(ss))

RECURSIVE JoinWith(_, _)
\* sep.join(ss) for a sequence of texts
JoinWith(ss, sep) ==
    IF ss = <<>> THEN <<>>
    ELSE IF Len(ss) = 1 THEN ss[1]
    ELSE ss[1] \o sep \o JoinWith(Tail(ss), sep)

StartsWith(s, p) ==
    /\ Len(s) >= Len(p)
    /\ SubSeq(s, 1, Len(p)) = p

\* the value of a local variable: The({e(v) : v \in {x}}) is e with v = x,
\* x computed once
The(S) == CHOOSE r \in S : TRUE

\* ------------------------------------------------------------------ values
\* Python values the registry and the evaluator handle, as uniform records.
NoFields == <<>>
VStr(t) == [kind |-> "str", txt |-> t, num |-> 0, flag |-> FALSE, fields |-> NoFields]
VInt(n) == [kind |-> "int", txt |-> <<>>, num |-> n, flag |-> FALSE, fields |-> NoFields]
VBool(b) == [kind |-> "bool", txt |-> <<>>, num |-> 0, flag |-> b, fields |-> NoFields]
\* a stat result: {'exists': e, k1: v1, ...}; fields is the sequence of <<k, v>>
VDict(e, f) == [kind |-> "dict", txt |-> <<>>, num |-> 0, flag |-> e, fields |-> f]
VNone == [kind |-> "none", txt |-> <<>>, num |-> 0, flag |-> FALSE, fields |-> NoFields]

\* Python truthiness ("if not result")
Truthy(v) ==
    CASE v.kind = "str" -> v.txt # <<>>
      [] v.kind = "int" -> v.num # 0
      [] v.kind = "bool" -> v.flag
      [] v.kind = "dict" -> TRUE
      [] OTHER -> FALSE

\* --------------------------------------------------------------- contexts
PHVar == ("{{user}}" :> "user") @@ ("{{home}}" :> "home") @@
         ("{{root}}" :> "root") @@ ("{{blank}}" :> "blank") @@
         ("{{undef}}" :> "undef")

IsPlaceholder(tok) == tok \in DOMAIN PHVar

\* vars.json: the global variables
global_vars ==
    ("user" :> <<"bob">>) @@ ("home" :> <<"/home/", "{{user}}">>) @@ ("blank" :> <<>>)

\* hosts.json "vars" of host h: odd hosts override user, even hosts define root
host_vars(h) ==
    IF h % 2 = 1 THEN ("user" :> <<"alice">>)
    ELSE ("root" :> <<"/srv">>)

\* a merge in which the first dict wins a collision: {**d2, **d1}
merge_dictsFirstWins(d1, d2) ==
    [k \in (DOMAIN d1) \cup (DOMAIN d2) |-> IF k \in DOMAIN d1 THEN d1[k] ELSE d2[k]]

\* {**d1, **d2}: a new dict, d1 and d2 stay as they are
merge_dicts(d1, d2) ==
    [k \in (DOMAIN d1) \cup (DOMAIN d2) |-> IF k \in DOMAIN d2 THEN d2[k] ELSE d1[k]]

HostContext(h) == merge_dicts(global_vars, host_vars(h))

\* ---------------------------------------------------------------- renderer
\* one jinja2 pass with StrictUndefined: every placeholder is replaced by the
\* value of its variable; a placeholder of a variable absent from the context
\* raises UndefinedError
Undefined(t, ctx) ==
    \E i \in 1..Len(t) : IsPlaceholder(t[i]) /\ PHVar[t[i]] \notin DOMAIN ctx

RenderPass(t, ctx) ==
    Flatten([i \in 1..Len(t) |->
        IF IsPlaceholder(t[i]) THEN ctx[PHVar[t[i]]] ELSE <<t[i]>>])

\* a renderer that makes one pass and returns
recursive_renderOnce(prev, ctx, fuel) ==
    IF Undefined(prev, ctx) THEN [exc |-> "UndefinedError", text |-> <<>>]
    ELSE [exc |-> "", text |-> RenderPass(prev, ctx)]

RECURSIVE recursive_render(_, _, _)
\* while True: curr = render(prev); if curr != prev: prev = curr else return
\* fuel = 0 stands for a loop that has not returned (exc "diverges")
recursive_render(prev, ctx, fuel) ==
    IF Undefined(prev, ctx) THEN [exc |-> "UndefinedError", text |-> <<>>]
    ELSE IF fuel = 0 THEN [exc |-> "diverges", text |-> <<>>]
    ELSE The({IF curr # prev THEN recursive_render(curr, ctx, fuel - 1)
              ELSE [exc |-> "", text |-> curr] :
              curr \in {RenderPass(prev, ctx)}})

\* Host.render_string
render_string(string, ctx) == recursive_render(string, ctx, RenderFuel)

\* SSHClient.render_string: an empty render_context leaves the string as is
client_render_string(string, ctx) ==
    IF DOMAIN ctx = {} THEN [exc |-> "", text |-> string]
    ELSE recursive_render(string, ctx, RenderFuel)

\* ------------------------------------------------------------------- hosts
Hosts == 1..NumHosts

\* Host.address and Host.ssh_user of hosts.json: odd hosts have an ssh_user
Address(h) == "host" \o ToString(h)
SshUser(h) == IF h % 2 = 1 THEN "deploy" ELSE ""

\* SSHClient._remote_address
remote_address(h) ==
    (IF SshUser(h) # "" THEN <<SshUser(h), "@">> ELSE <<>>) \o <<Address(h)>>

\* ---------------------------------------------------------- command builder
DQ == "\""
EscDQ == "\\\""

\* inner_command.replace('"', '\\"')
EscapeQuotes(t) == [i \in 1..Len(t) |-> IF t[i] = DQ THEN EscDQ ELSE t[i]]

\* a builder that elevates inside the shell invocation
BuildSshSudoInside(command, become, become_user, wrap_bash, timeout, h) ==
    LET prefix == IF become
                  THEN <<"sudo -H --non-interactive ">> \o
                       (IF become_user # "" THEN <<"-u ", become_user, " ">> ELSE <<>>)
                  ELSE <<>>
        wrapped == IF wrap_bash
                   THEN <<"/bin/bash -c ", DQ, "cd && ">> \o prefix \o command \o <<DQ>>
                   ELSE prefix \o command
    IN  <<"ssh ">> \o
        (IF timeout # 0 THEN <<"-o ConnectTimeout=", ToString(timeout), " ">> ELSE <<>>) \o
        remote_address(h) \o <<" ", DQ>> \o EscapeQuotes(wrapped) \o <<DQ>>

\* SSHClient.exec_command up to the call of _run_remote_command: the command
\* line built for host h by a client constructed with the given timeout
BuildSsh(command, become, become_user, wrap_bash, timeout, h) ==
    LET wrapped == IF wrap_bash
                   THEN <<"/bin/bash -c ", DQ, "cd && ">> \o command \o <<DQ>>
                   ELSE command
        prefix == IF become
                  THEN <<"sudo -H --non-interactive ">> \o
                       (IF become_user # "" THEN <<"-u ", become_user, " ">> ELSE <<>>)
                  ELSE <<>>
        inner == EscapeQuotes(prefix \o wrapped)
    IN  <<"ssh ">> \o
        (IF timeout # 0 THEN <<"-o ConnectTimeout=", ToString(timeout), " ">> ELSE <<>>) \o
        remote_address(h) \o <<" ", DQ>> \o inner \o <<DQ>>

\* SSHClient.exec_rsync up to the call of _run_remote_command
BuildRsync(source, destination, become, become_user, ignore_existing, mode, owner, group, timeout, h) ==
    <<"rsync -avz --progress ">> \o
    (IF timeout # 0 THEN <<"--timeout=", ToString(timeout), " ">> ELSE <<>>) \o
    (IF ignore_existing THEN <<"--ignore-existing ">> ELSE <<>>) \o
    (IF mode # "" THEN <<"--chmod=", DQ, mode, DQ, " ">> ELSE <<>>) \o
    (IF owner # "" \/ group # ""
        THEN <<"--chown=", DQ, owner, ":", group, DQ, " ">> ELSE <<>>) \o
    (IF become
        THEN <<"--rsync-path=", DQ, "sudo -u ",
               (IF become_user # "" THEN become_user ELSE "root"), " rsync", DQ, " ">>
        ELSE <<>>) \o
    <<DQ>> \o source \o <<DQ, " ", DQ>> \o remote_address(h) \o <<":">> \o
    destination \o <<DQ, " ">>

\* ---------------------------------------------------------------- transport
\* The remote side's answer to a command that exits 0, r being the state of the
\* remote side.  A stat query answers with its format string, each %c replaced
\* by the file's value of field c (%n is the file name as it was given, %N the
\* quoted file name); any other command answers with an output that depends on
\* the command and on r.
StatFieldNames == <<"a", "A", "F", "g", "G", "i", "n", "N", "s", "u", "U", "X", "Y", "Z">>

StatValue(c, path, r) ==
    IF c = "n" THEN path
    ELSE IF c = "N" THEN <<"'">> \o path \o <<"'">>
    ELSE <<c \o "-val" \o ToString(r)>>

\* format = '|'.join([c+':%'+c for c in 'aAFgGinNsuUXYZ'])
StatFormat ==
    JoinWith([i \in 1..Len(StatFieldNames) |->
                 <<StatFieldNames[i], ":", "%" \o StatFieldNames[i]>>], <<"|">>)

StatReply(path, r) ==
    JoinWith([i \in 1..Len(StatFieldNames) |->
                 <<StatFieldNames[i], ":">> \o StatValue(StatFieldNames[i], path, r)],
             <<"|">>)
    \o <<"\n">>

IsStatQuery(cmdline) == FindTok(cmdline, "stat --format=", 1) # 0

\* test -d and test -e print nothing
IsTest(cmdline) ==
    FindTok(cmdline, "test -d ", 1) # 0 \/ FindTok(cmdline, "test -e ", 1) # 0

\* the path a stat query names: its last quoted argument
QueriedPath(cmdline) ==
    SubSeq(cmdline, FindTok(cmdline, " ", FindTok(cmdline, "stat --format=", 1)) + 2,
           Len(cmdline) - 2)

Reply(cmdline, r) ==
    IF IsStatQuery(cmdline) THEN StatReply(QueriedPath(cmdline), r)
    ELSE IF IsTest(cmdline) THEN <<>>
    ELSE <<"out" \o ToString(r) \o " of ">> \o cmdline \o <<"\n">>

\* outcome of one subprocess: 0 = non-zero exit, r > 0 = exit 0 with answer r
Outcomes == 0..NumReplies

\* ------------------------------------------------------------- the registry
RegNames == {"r1", "r2"}
\* marks a name that is not a key of Host.results
VAbsent == [kind |-> "absent", txt |-> <<>>, num |-> 0, flag |-> FALSE, fields |-> NoFields]
EmptyResults == [n \in RegNames |-> VAbsent]

\* ------------------------------------------------------------------ actions
ExtraKeys == {"path", "destination", "chdir", "mode", "force", "owner", "group"}
\* Action.extra: keys is the set of keys present in the dict
NoExtra == [keys |-> {}, path |-> <<>>, destination |-> <<>>, chdir |-> <<>>,
            mode |-> "", force |-> FALSE, owner |-> "", group |-> ""]

\* dataclass Action with its defaults
DefaultAction ==
    [title |-> "", type |-> "", become |-> FALSE, become_user |-> "", timeout |-> 0,
     wrap_bash |-> TRUE, when |-> <<>>, register |-> "", items |-> <<>>, extra |-> NoExtra]

\* the value None passed as action by log_message
NoneAction == [DefaultAction EXCEPT !.type = "<None>"]

\* ------------------------------------------------ execution of one handler
\* m is the state of one call of Host.run_action: the host's registry, the
\* trace of what was done, the shared Action's wrap_bash, the number of
\* subprocesses started, their outcomes, the pending exception and the value
\* returned by the last call.
\* one entry of the trace: what was done (ev), for which action and host, by the
\* guard or the handler, the command line or printed text (cmd), the expression
\* evaluated (expr), a name (register, exit status, type, end state) and a value
Ev(m, ev, by, cmd, name, val) ==
    [ev |-> ev, a |-> m.a, h |-> m.h, by |-> by, cmd |-> cmd, expr |-> <<>>,
     name |-> name, val |-> val]

EvExpr(m, ev, expr, cmd, val) ==
    [ev |-> ev, a |-> m.a, h |-> m.h, by |-> "", cmd |-> cmd, expr |-> expr,
     name |-> "", val |-> val]

Raise(m, e) == [m EXCEPT !.exc = e]
Return(m, v) == [m EXCEPT !.ret = v]

\* SSHClient._run_remote_command
run_remote_command(m, remote_command, by) ==
    The({IF r.exc # "" THEN Raise(m, r.exc)
         ELSE IF m.dry
         THEN [m EXCEPT !.ret = VStr(<<>>),
                        !.log = Append(@, Ev(m, "dry", by, r.text, "", VNone))]
         ELSE LET o == m.outs[m.k + 1] IN
              IF o = 0
              THEN [m EXCEPT !.k = @ + 1, !.exc = "CalledProcessError",
                             !.log = Append(@, Ev(m, "cmd", by, r.text, "exit1", VNone))]
              ELSE [m EXCEPT !.k = @ + 1, !.ret = VStr(Reply(r.text, o)),
                             !.log = Append(@, Ev(m, "cmd", by, r.text, "exit0", VNone))] :
         r \in {client_render_string(remote_command, HostContext(m.h))}})

\* a write that keeps a value already stored under the name
RegWriteFirst(m, name, val) ==
    [m EXCEPT !.results[name] = IF @.kind = "absent" THEN val ELSE @,
              !.log = Append(@, Ev(m, "reg", "", <<>>, name, val))]

\* self.results[name] = val
RegWrite(m, name, val) ==
    [m EXCEPT !.results[name] = val,
              !.log = Append(@, Ev(m, "reg", "", <<>>, name, val))]

\* Host.run_ssh
run_ssh(m, action, command, by) ==
    The({IF m1.exc # "" THEN m1
         ELSE IF action.register # "" THEN RegWrite(m1, action.register, m1.ret)
         ELSE m1 :
         m1 \in {run_remote_command(m,
                     BuildSsh(command, action.become, action.become_user,
                              action.wrap_bash, action.timeout, m.h), by)}})

\* a transfer that passes extra.force itself as "skip existing"
run_rsyncForceSkips(m, action, source, destination) ==
    The({IF m1.exc # "" THEN m1
         ELSE IF action.register # "" THEN RegWrite(m1, action.register, m1.ret)
         ELSE m1 :
         m1 \in {run_remote_command(m,
                     BuildRsync(source, destination, action.become, action.become_user,
                                "force" \in action.extra.keys /\ action.extra.force,
                                IF "mode" \in action.extra.keys THEN action.extra.mode ELSE "",
                                IF "owner" \in action.extra.keys THEN action.extra.owner ELSE "",
                                IF "group" \in action.extra.keys THEN action.extra.group ELSE "",
                                action.timeout, m.h), "handler")}})

\* Host.run_rsync
run_rsync(m, action, source, destination) ==
    The({IF m1.exc # "" THEN m1
         ELSE IF action.register # "" THEN RegWrite(m1, action.register, m1.ret)
         ELSE m1 :
         m1 \in {run_remote_command(m,
                     BuildRsync(source, destination, action.become, action.become_user,
                                ~ ("force" \in action.extra.keys /\ action.extra.force),
                                IF "mode" \in action.extra.keys THEN action.extra.mode ELSE "",
                                IF "owner" \in action.extra.keys THEN action.extra.owner ELSE "",
                                IF "group" \in action.extra.keys THEN action.extra.group ELSE "",
                                action.timeout, m.h), "handler")}})

\* a path check whose command runs under the register of the guarded action
check_remote_path_existsRegisters(m, path, dir, action, by) ==
    IF m.dry THEN Return(m, VBool(FALSE))
    ELSE IF action.type = "<None>" THEN Raise(m, "AttributeError")
    ELSE LET command == <<IF dir THEN "test -d " ELSE "test -e ", DQ>> \o path \o <<DQ>>
             fake_action == [DefaultAction EXCEPT !.become = action.become,
                                                  !.become_user = action.become_user,
                                                  !.register = action.register,
                                                  !.wrap_bash = TRUE]
         IN  The({IF m1.exc = "CalledProcessError"
                  THEN [m1 EXCEPT !.exc = "", !.ret = VBool(FALSE)]
                  ELSE IF m1.exc # "" THEN m1
                  ELSE Return(m1, VBool(TRUE)) :
                  m1 \in {run_ssh(m, fake_action, command, by)}})

\* Host.check_remote_path_exists
check_remote_path_exists(m, path, dir, action, by) ==
    IF m.dry THEN Return(m, VBool(FALSE))
    ELSE IF action.type = "<None>" THEN Raise(m, "AttributeError")
    ELSE LET command == <<IF dir THEN "test -d " ELSE "test -e ", DQ>> \o path \o <<DQ>>
             fake_action == [DefaultAction EXCEPT !.become = action.become,
                                                  !.become_user = action.become_user,
                                                  !.wrap_bash = TRUE]
         IN  The({IF m1.exc = "CalledProcessError"
                  THEN [m1 EXCEPT !.exc = "", !.ret = VBool(FALSE)]
                  ELSE IF m1.exc # "" THEN m1
                  ELSE Return(m1, VBool(TRUE)) :
                  m1 \in {run_ssh(m, fake_action, command, by)}})

\* ------------------------------------------------------ Python's eval()
\* The part of Python that the expressions of the action files use: integer
\* and boolean literals, a sum, a string literal, self.results['n'],
\* self.results['n']['exists'] and "not".
NumOf == ("0" :> 0) @@ ("1" :> 1) @@ ("2" :> 2)
SQ == "'"

IsResultsLookup(t) ==
    /\ Len(t) = 6
    /\ SubSeq(t, 1, 3) = <<"self.results", "[", SQ>>
    /\ SubSeq(t, 5, 6) = <<SQ, "]">>

IsStringLiteral(t) ==
    /\ Len(t) >= 2
    /\ t[1] = SQ
    /\ FindTok(t, SQ, 2) = Len(t)

\* a lookup that answers None for a missing key, as dict.get does
KeyLookupGet(results, n) ==
    IF n \in RegNames /\ results[n].kind # "absent"
    THEN [exc |-> "", val |-> results[n]]
    ELSE [exc |-> "", val |-> VNone]

\* results[n]: KeyError when n is not a key
KeyLookup(results, n) ==
    IF n \in RegNames /\ results[n].kind # "absent"
    THEN [exc |-> "", val |-> results[n]]
    ELSE [exc |-> "KeyError", val |-> VNone]

RECURSIVE PyEval(_, _)
PyEval(t, results) ==
    IF t = <<>> THEN [exc |-> "SyntaxError", val |-> VNone]
    ELSE IF t[1] = "not"
    THEN LET r == PyEval(Tail(t), results) IN
         IF r.exc # "" THEN r ELSE [exc |-> "", val |-> VBool(~ Truthy(r.val))]
    ELSE IF t = <<"True">> THEN [exc |-> "", val |-> VBool(TRUE)]
    ELSE IF t = <<"False">> THEN [exc |-> "", val |-> VBool(FALSE)]
    ELSE IF Len(t) = 1 /\ t[1] \in DOMAIN NumOf
    THEN [exc |-> "", val |-> VInt(NumOf[t[1]])]
    ELSE IF Len(t) = 3 /\ t[1] \in DOMAIN NumOf /\ t[2] = "+" /\ t[3] \in DOMAIN NumOf
    THEN [exc |-> "", val |-> VInt(NumOf[t[1]] + NumOf[t[3]])]
    ELSE IF IsStringLiteral(t)
    THEN [exc |-> "", val |-> VStr(SubSeq(t, 2, Len(t) - 1))]
    ELSE IF IsResultsLookup(t)
    THEN KeyLookup(results, t[4])
    ELSE IF Len(t) = 11 /\ IsResultsLookup(SubSeq(t, 1, 6))
            /\ SubSeq(t, 7, 11) = <<"[", SQ, "exists", SQ, "]">>
    THEN LET r == PyEval(SubSeq(t, 1, 6), results) IN
         IF r.exc # "" THEN r
         ELSE IF r.val.kind = "dict" THEN [exc |-> "", val |-> VBool(r.val.flag)]
         ELSE [exc |-> "TypeError", val |-> VNone]
    ELSE [exc |-> "SyntaxError", val |-> VNone]

\* str(value)
Str(v) ==
    CASE v.kind = "str" -> v.txt
      [] v.kind = "int" -> <<ToString(v.num)>>
      [] v.kind = "bool" -> IF v.flag THEN <<"True">> ELSE <<"False">>
      [] v.kind = "dict" ->
            <<"{", "'exists'", ":", IF v.flag THEN "True" ELSE "False">> \o
            Flatten([i \in 1..Len(v.fields) |->
                        <<",", SQ>> \o v.fields[i][1] \o <<SQ, ":", SQ>>
                        \o v.fields[i][2] \o <<SQ>>]) \o <<"}">>
      [] OTHER -> <<"None">>

IsSpace(tok) == tok \in {" ", "\n"}

RECURSIVE LStrip(_)
LStrip(t) == IF t # <<>> /\ IsSpace(t[1]) THEN LStrip(Tail(t)) ELSE t

RECURSIVE RStrip(_)
RStrip(t) ==
    IF t # <<>> /\ IsSpace(t[Len(t)]) THEN RStrip(SubSeq(t, 1, Len(t) - 1)) ELSE t

\* str.strip()
Strip(t) == RStrip(LStrip(t))

\* ------------------------------------------------------ expression evaluator
\* text[text.find('(') + 1 : text.rfind(')')]
InnerTextLast(text) ==
    LET o == FindTok(text, "(", 1)
        P == {i \in 1..Len(text) : text[i] = ")"}
        c == IF P = {} THEN 0 ELSE CHOOSE i \in P : \A j \in P : j <= i
    IN  SubSeq(text, o + 1, IF c = 0 THEN Len(text) - 1 ELSE c - 1)

\* text[text.find('(') + 1 : text.find(')')]
InnerText(text) ==
    LET o == FindTok(text, "(", 1)
        c == FindTok(text, ")", 1)
    IN  SubSeq(text, o + 1, IF c = 0 THEN Len(text) - 1 ELSE c - 1)

\* a lookup that returns the text of the stored value
ResultsLookupStr(text, results) ==
    LET v == PyEval(<<"self.results">> \o Tail(text), results) IN
    IF v.exc # "" THEN v ELSE [exc |-> "", val |-> VStr(Str(v.val))]

\* eval("self." + text)
ResultsLookup(text, results) == PyEval(<<"self.results">> \o Tail(text), results)

\* the path-check branches of evaluate_expression
PathCheck(m, text, dir, negate, action, by) ==
    The({IF p.exc # "" THEN Raise(m, p.exc)
         ELSE The({IF m1.exc # "" THEN m1
                   ELSE IF negate THEN Return(m1, VBool(~ m1.ret.flag)) ELSE m1 :
                   m1 \in {check_remote_path_exists(m, Str(p.val), dir, action, by)}}) :
         p \in {PyEval(InnerText(text), m.results)}})

\* Host.evaluate_expression
evaluate_expression(m, expression, action, by) ==
    The({LET text == r.text IN
         IF r.exc # "" THEN Raise(m, r.exc)
         ELSE IF StartsWith(text, <<"results", "[">>)
         THEN The({IF v.exc # "" THEN Raise(m, v.exc) ELSE Return(m, v.val) :
                   v \in {ResultsLookup(text, m.results)}})
         ELSE IF StartsWith(text, <<"eval", "(">>)
         THEN The({IF v.exc # "" THEN Raise(m, v.exc) ELSE Return(m, v.val) :
                   v \in {PyEval(InnerText(text), m.results)}})
         ELSE IF StartsWith(text, <<"not_exists_dir", "(">>)
         THEN PathCheck(m, text, TRUE, TRUE, action, by)
         ELSE IF StartsWith(text, <<"exists_dir", "(">>)
         THEN PathCheck(m, text, TRUE, FALSE, action, by)
         ELSE IF StartsWith(text, <<"not_exists_file", "(">>)
         THEN PathCheck(m, text, FALSE, TRUE, action, by)
         ELSE IF StartsWith(text, <<"exists_file", "(">>)
         THEN PathCheck(m, text, FALSE, FALSE, action, by)
         ELSE Return(m, VStr(text)) :
         r \in {render_string(expression, HostContext(m.h))}})

RECURSIVE log_message(_, _)
\* Host.log_message
log_message(m, lines) ==
    IF lines = <<>> \/ m.exc # "" THEN m
    ELSE The({IF m1.exc # "" THEN m1
              ELSE log_message(
                      [m1 EXCEPT !.log = Append(@, EvExpr(m1, "print", Head(lines),
                                                           Strip(Str(m1.ret)), m1.ret))],
                      Tail(lines)) :
              m1 \in {evaluate_expression(m, Head(lines), NoneAction, "handler")}})

\* ------------------------------------------------------------------ handlers
RECURSIVE SplitFrom(_, _, _, _)
SplitFrom(t, sep, i, cur) ==
    IF i > Len(t) THEN <<cur>>
    ELSE IF t[i] = sep THEN <<cur>> \o SplitFrom(t, sep, i + 1, <<>>)
    ELSE SplitFrom(t, sep, i + 1, Append(cur, t[i]))

\* str.split(sep)
Split(t, sep) == SplitFrom(t, sep, 1, <<>>)

RECURSIVE DictSet(_, _, _)
\* d[k] = v on a dict kept as a sequence of <<k, v>> in insertion order
DictSet(d, k, v) ==
    IF d = <<>> THEN << <<k, v>> >>
    ELSE IF d[1][1] = k THEN << <<k, v>> >> \o Tail(d)
    ELSE <<d[1]>> \o DictSet(Tail(d), k, v)

RECURSIVE DictFromPieces(_, _)
DictFromPieces(pieces, d) ==
    IF pieces = <<>> THEN d
    ELSE LET kv == Split(Head(pieces), ":") IN
         DictFromPieces(Tail(pieces), DictSet(d, kv[1], Strip(kv[2])))

\* {t.split(':')[0]: t.split(':')[1].strip() for t in response.split('|')}
ParseStat(response) ==
    LET pieces == Split(response, "|") IN
    IF \E i \in 1..Len(pieces) : Len(Split(pieces[i], ":")) < 2
    THEN [exc |-> "IndexError", fields |-> NoFields]
    ELSE [exc |-> "", fields |-> DictFromPieces(pieces, <<>>)]

\* merge_dicts({'exists': True}, parsed_response)
StatResult(parsed) ==
    IF \E i \in 1..Len(parsed) : parsed[i][1] = <<"exists">>
    THEN VDict((CHOOSE i \in 1..Len(parsed) : parsed[i][1] = <<"exists">>) \in
                  {j \in 1..Len(parsed) : parsed[j][2] # <<>>}, parsed)
    ELSE VDict(TRUE, parsed)

\* Host.check_required_action_params(action, ["register"])
MissingRegister(action) == action.register = ""

\* Host.check_required_action_extra_params(action, [key])
\* a check that finds every extra parameter present
MissingExtraNever(action, key) == FALSE

MissingExtra(action, key) == key \notin action.extra.keys

\* Host.execute_mkdirs
execute_mkdirs(m, action) ==
    The({IF r.exc # "" THEN Raise(m, r.exc)
         ELSE run_ssh(m, action,
                      <<"mkdir -p ">> \o
                      (IF "mode" \in action.extra.keys
                          THEN <<"-m ", action.extra.mode, " ">> ELSE <<>>) \o r.text,
                      "handler") :
         r \in {render_string(JoinWith(action.items, <<" ">>), HostContext(m.h))}})

\* a stat handler without the except clause: a failed test leaves the handler
execute_statRaise(m, action0, dir) ==
    IF MissingRegister(action0) THEN Raise(m, "Exception")
    ELSE IF MissingExtra(action0, "path") THEN Raise(m, "Exception")
    ELSE
    LET action == [action0 EXCEPT !.wrap_bash = FALSE]
        mw == [m EXCEPT !.wrap = FALSE]
        test == <<IF dir THEN "test -d " ELSE "test -e ", DQ>> \o action.extra.path \o <<DQ>>
        query == <<"stat --format=", DQ>> \o StatFormat \o <<DQ, " ", DQ>>
                 \o action.extra.path \o <<DQ>>
    IN  The({
          The({IF m2.exc # "" THEN m2
               ELSE The({IF parsed.exc # "" THEN Raise(m2, parsed.exc)
                         ELSE RegWrite(m2, action.register, StatResult(parsed.fields)) :
                         parsed \in {ParseStat(m2.ret.txt)}}) :
               m2 \in {IF m1.exc # "" THEN m1 ELSE run_ssh(m1, action, query, "handler")}}) :
          m1 \in {run_ssh(mw, action, test, "handler")}})

\* a stat handler that leaves wrap_bash as the action declares it
execute_statKeepWrap(m, action, dir) ==
    IF MissingRegister(action) THEN Raise(m, "Exception")
    ELSE IF MissingExtra(action, "path") THEN Raise(m, "Exception")
    ELSE
    LET test == <<IF dir THEN "test -d " ELSE "test -e ", DQ>> \o action.extra.path \o <<DQ>>
        query == <<"stat --format=", DQ>> \o StatFormat \o <<DQ, " ", DQ>>
                 \o action.extra.path \o <<DQ>>
    IN  The({
          The({IF m2.exc = "CalledProcessError"
               THEN RegWrite([m2 EXCEPT !.exc = ""], action.register, VDict(FALSE, NoFields))
               ELSE IF m2.exc # "" THEN m2
               ELSE The({IF parsed.exc # "" THEN Raise(m2, parsed.exc)
                         ELSE RegWrite(m2, action.register, StatResult(parsed.fields)) :
                         parsed \in {ParseStat(m2.ret.txt)}}) :
               m2 \in {IF m1.exc # "" THEN m1 ELSE run_ssh(m1, action, query, "handler")}}) :
          m1 \in {run_ssh(m, action, test, "handler")}})

\* Host.execute_stat; the handler writes wrap_bash = False to the Action
execute_stat(m, action0, dir) ==
    IF MissingRegister(action0) THEN Raise(m, "Exception")
    ELSE IF MissingExtra(action0, "path") THEN Raise(m, "Exception")
    ELSE
    LET action == [action0 EXCEPT !.wrap_bash = FALSE]
        mw == [m EXCEPT !.wrap = FALSE]
        test == <<IF dir THEN "test -d " ELSE "test -e ", DQ>> \o action.extra.path \o <<DQ>>
        query == <<"stat --format=", DQ>> \o StatFormat \o <<DQ, " ", DQ>>
                 \o action.extra.path \o <<DQ>>
    IN  The({
          The({IF m2.exc = "CalledProcessError"
               THEN RegWrite([m2 EXCEPT !.exc = ""], action.register, VDict(FALSE, NoFields))
               ELSE IF m2.exc # "" THEN m2
               ELSE The({IF parsed.exc # "" THEN Raise(m2, parsed.exc)
                         ELSE RegWrite(m2, action.register, StatResult(parsed.fields)) :
                         parsed \in {ParseStat(m2.ret.txt)}}) :
               m2 \in {IF m1.exc # "" THEN m1 ELSE run_ssh(m1, action, query, "handler")}}) :
          m1 \in {run_ssh(mw, action, test, "handler")}})

\* os.path.isfile(source): the files present under the files folder
LocalFiles == {<<"app.conf">>}

RECURSIVE CopyItems(_, _, _)
CopyItems(m, action, items) ==
    IF items = <<>> \/ m.exc # "" THEN m
    ELSE IF Head(items) \notin LocalFiles THEN Raise(m, "Exception")
    ELSE CopyItems(run_rsync(m, action, <<"files/">> \o Head(items),
                             action.extra.destination),
                   action, Tail(items))

\* Host.execute_copy
execute_copy(m, action) ==
    IF MissingExtra(action, "destination") THEN Raise(m, "Exception")
    ELSE CopyItems(m, action, action.items)

RECURSIVE CommandItemsKeepGoing(_, _, _)
\* a loop that goes on to the next item after a failed command
CommandItemsKeepGoing(m, action, items) ==
    IF items = <<>> THEN m
    ELSE IF Head(items) # <<>> /\ Head(items)[1] = "#"
    THEN CommandItemsKeepGoing(m, action, Tail(items))
    ELSE LET chdir == IF "chdir" \in action.extra.keys THEN action.extra.chdir ELSE <<>>
             command == IF chdir # <<>>
                        THEN <<"cd ">> \o chdir \o <<" && ">> \o Head(items)
                        ELSE Head(items)
         IN  CommandItemsKeepGoing([run_ssh(m, action, command, "handler") EXCEPT !.exc = ""],
                                   action, Tail(items))

RECURSIVE CommandItems(_, _, _)
\* the loop over the items of a command action in Host.run_action
CommandItems(m, action, items) ==
    IF items = <<>> \/ m.exc # "" THEN m
    ELSE IF Head(items) # <<>> /\ Head(items)[1] = "#"
    THEN CommandItems(m, action, Tail(items))
    ELSE LET chdir == IF "chdir" \in action.extra.keys THEN action.extra.chdir ELSE <<>>
             command == IF chdir # <<>>
                        THEN <<"cd ">> \o chdir \o <<" && ">> \o Head(items)
                        ELSE Head(items)
         IN  CommandItems(run_ssh(m, action, command, "handler"), action, Tail(items))

KnownTypes == {"command", "mkdirs", "message", "stat_dir", "stat_file", "copy"}

\* a dispatch that ignores an action of unknown type
DispatchLenient(m, action) ==
    CASE action.type = "command" -> CommandItems(m, action, action.items)
      [] action.type = "mkdirs" -> execute_mkdirs(m, action)
      [] action.type = "message" -> log_message(m, action.items)
      [] action.type = "stat_dir" -> execute_stat(m, action, TRUE)
      [] action.type = "stat_file" -> execute_stat(m, action, FALSE)
      [] action.type = "copy" -> execute_copy(m, action)
      [] OTHER -> m

\* the dispatch by action.type in Host.run_action
Dispatch(m, action) ==
    CASE action.type = "command" -> CommandItems(m, action, action.items)
      [] action.type = "mkdirs" -> execute_mkdirs(m, action)
      [] action.type = "message" -> log_message(m, action.items)
      [] action.type = "stat_dir" -> execute_stat(m, action, TRUE)
      [] action.type = "stat_file" -> execute_stat(m, action, FALSE)
      [] action.type = "copy" -> execute_copy(m, action)
      [] OTHER -> Raise(m, "Exception")

\* "if result is None: skip = True"
ShouldSkipIsNone(result) == result.kind = "none"

\* "if result is False: skip = True"
ShouldSkipIsFalse(result) == result.kind = "bool" /\ ~ result.flag

\* "if not result: skip = True"
ShouldSkip(result) == ~ Truthy(result)

\* a run_action that checks the type before it evaluates the guard
run_actionTypeFirst(m, action) ==
    IF action.type \notin KnownTypes THEN Raise(m, "Exception")
    ELSE
    LET g0 == [m EXCEPT !.log = Append(@, EvExpr(m, "guard", action.when, <<>>, VNone))]
    IN  The({
          IF g.exc # "" THEN g
          ELSE IF action.when # <<>> /\ ShouldSkip(g.ret)
          THEN log_message([g EXCEPT !.log = Append(@, Ev(g, "skip", "", <<>>, "", VNone))],
                           << <<"skipped">> >>)
          ELSE Dispatch([g EXCEPT !.log = Append(@, Ev(g, "dispatch", "", <<>>,
                                                       action.type, VNone))],
                        action) :
          g \in {IF action.when = <<>> THEN m
                 ELSE The({IF g1.exc # "" THEN g1
                           ELSE [g1 EXCEPT !.log = Append(@, EvExpr(g1, "guarded",
                                                       action.when, <<>>, g1.ret))] :
                           g1 \in {evaluate_expression(g0, action.when, action, "guard")}})}})

\* Host.run_action
run_action(m, action) ==
    LET g0 == [m EXCEPT !.log = Append(@, EvExpr(m, "guard", action.when, <<>>, VNone))]
    IN  The({
          IF g.exc # "" THEN g
          ELSE IF action.when # <<>> /\ ShouldSkip(g.ret)
          THEN log_message([g EXCEPT !.log = Append(@, Ev(g, "skip", "", <<>>, "", VNone))],
                           << <<"skipped">> >>)
          ELSE Dispatch([g EXCEPT !.log = Append(@, Ev(g, "dispatch", "", <<>>,
                                                       action.type, VNone))],
                        action) :
          g \in {IF action.when = <<>> THEN m
                 ELSE The({IF g1.exc # "" THEN g1
                           ELSE [g1 EXCEPT !.log = Append(@, EvExpr(g1, "guarded",
                                                       action.when, <<>>, g1.ret))] :
                           g1 \in {evaluate_expression(g0, action.when, action, "guard")}})}})

\* ------------------------------------------------------------ action files
Lookup(n) == <<"results", "[", SQ, n, SQ, "]">>
EvalOf(t) == <<"eval", "(">> \o t \o <<")">>
SelfExists(n) == <<"self.results", "[", SQ, n, SQ, "]", "[", SQ, "exists", SQ, "]">>
PathGuard(f, p) == <<f, "(", SQ>> \o p \o <<SQ, ")">>
ExtraWith(keys, e) == [e EXCEPT !.keys = keys]

\* the actions an action file of this model is made of
Catalogue == {
    [DefaultAction EXCEPT !.title = "echo", !.type = "command",
                          !.items = << <<"echo hi">> >>],
    [DefaultAction EXCEPT !.title = "two commands", !.type = "command",
                          !.register = "r1", !.become = TRUE, !.become_user = "www",
                          !.timeout = 5,
                          !.items = << <<"#", "list">>, <<"ls ", "{{home}}">>, <<"whoami">> >>,
                          !.extra = ExtraWith({"chdir"}, [NoExtra EXCEPT !.chdir = <<"/opt">>])],
    [DefaultAction EXCEPT !.title = "needs root var", !.type = "command",
                          !.items = << <<"echo ", "{{root}}">> >>],
    [DefaultAction EXCEPT !.title = "show r1", !.type = "message",
                          !.when = Lookup("r1"),
                          !.items = << <<"r1 is">>, Lookup("r1") >>],
    [DefaultAction EXCEPT !.title = "never", !.type = "command", !.register = "r2",
                          !.when = EvalOf(<<"0">>), !.items = << <<"reboot">> >>],
    [DefaultAction EXCEPT !.title = "blank guard", !.type = "mkdirs",
                          !.when = <<"{{blank}}">>, !.items = << <<"/tmp/x">> >>],
    [DefaultAction EXCEPT !.title = "stat log", !.type = "stat_file", !.register = "r1",
                          !.extra = ExtraWith({"path"},
                                       [NoExtra EXCEPT !.path = <<"{{home}}", "/log">>])],
    [DefaultAction EXCEPT !.title = "stat drive", !.type = "stat_dir", !.register = "r1",
                          !.extra = ExtraWith({"path"},
                                       [NoExtra EXCEPT !.path = <<"/mnt/c", ":", "/x">>])],
    [DefaultAction EXCEPT !.title = "stat without register", !.type = "stat_dir",
                          !.extra = ExtraWith({"path"}, [NoExtra EXCEPT !.path = <<"/srv">>])],
    [DefaultAction EXCEPT !.title = "stat nothing", !.type = "stat_file", !.register = "r2"],
    [DefaultAction EXCEPT !.title = "copy nowhere", !.type = "copy",
                          !.items = << <<"app.conf">> >>],
    [DefaultAction EXCEPT !.title = "if dir", !.type = "mkdirs", !.timeout = 5,
                          !.when = PathGuard("exists_dir", <<"/srv">>),
                          !.items = << <<"{{home}}", "/a">>, <<"/b">> >>,
                          !.extra = ExtraWith({"mode"}, [NoExtra EXCEPT !.mode = "755"])],
    [DefaultAction EXCEPT !.title = "template", !.type = "template"],
    [DefaultAction EXCEPT !.title = "template never", !.type = "template",
                          !.when = EvalOf(<<"False">>)],
    [DefaultAction EXCEPT !.title = "typo unless file", !.type = "comand",
                          !.when = PathGuard("not_exists_file", <<"/etc/done">>),
                          !.items = << <<"touch /etc/done">> >>],
    [DefaultAction EXCEPT !.title = "copy conf", !.type = "copy",
                          !.items = << <<"app.conf">> >>,
                          !.extra = ExtraWith({"destination"},
                                       [NoExtra EXCEPT !.destination = <<"/etc/app">>])],
    [DefaultAction EXCEPT !.title = "if present", !.type = "message",
                          !.when = EvalOf(SelfExists("r1")),
                          !.items = << <<"file exists">>, EvalOf(<<"1", "+", "2">>) >>],
    [DefaultAction EXCEPT !.title = "report dir", !.type = "message",
                          !.items = << <<"srv:">>, PathGuard("exists_dir", <<"/srv">>) >>],
    [DefaultAction EXCEPT !.title = "if absent", !.type = "message",
                          !.when = EvalOf(<<"not">> \o SelfExists("r1")),
                          !.items = << <<"file DOES NOT exists">> >>],
    [DefaultAction EXCEPT !.title = "list if present", !.type = "command",
                          !.when = EvalOf(SelfExists("r1")),
                          !.items = << <<"ls -l ", "{{home}}", "/log">> >>]
}

\* ------------------------------------------------------------ the run loop
\* action: the Action object of the current iteration of "for action in
\*   actions" (the list is an input: each element is any action of Catalogue);
\* ai, hi: the positions of the outer and the inner loop;
\* last: what the most recent iteration of the inner loop did, in order;
\* input, output: the arguments and the result of one call of a function of
\*   the renderer or of the command builder taken on its own (idle in a run).
VARIABLES action, dry_run, errors, results, ai, hi, last, input, output

vars == <<action, dry_run, errors, results, ai, hi, last, input, output>>

\* no call of a function on its own
Idle == [fn |-> "", exc |-> "", text |-> <<>>]

\* work() after load_vars, load_hosts and load_actions
Init ==
    /\ action \in Catalogue
    /\ dry_run \in BOOLEAN
    /\ errors = [h \in Hosts |-> 0]
    /\ results = [h \in Hosts |-> EmptyResults]
    /\ ai = 1
    /\ hi = 1
    /\ last = <<>>
    /\ input = Idle
    /\ output = Idle

Running == ai <= NumActions

\* "for action in actions" inside "for host in hosts"
AdvanceHostMajor(a) ==
    IF ai < NumActions
    THEN /\ ai' = ai + 1
         /\ hi' = hi
         /\ action' \in Catalogue
    ELSE /\ ai' = IF hi < NumHosts THEN 1 ELSE ai + 1
         /\ hi' = IF hi < NumHosts THEN hi + 1 ELSE 1
         /\ action' \in Catalogue

\* "for host in hosts" inside "for action in actions": the next iteration;
\* a is the current Action object as the finished iteration leaves it
Advance(a) ==
    IF hi < NumHosts
    THEN /\ hi' = hi + 1
         /\ ai' = ai
         /\ action' = a
    ELSE /\ hi' = 1
         /\ ai' = ai + 1
         /\ IF ai < NumActions THEN action' \in Catalogue ELSE action' = a

\* an entry that hands every host the registry of the first host: "results"
\* as one dict shared by all Host objects
EnterSharedRegistry(outs) ==
    LET m0 == [a |-> ai, h |-> hi, dry |-> dry_run, results |-> results[1],
               log |-> <<>>, wrap |-> action.wrap_bash, k |-> 0, outs |-> outs,
               exc |-> "", ret |-> VNone]
    IN  [m0 EXCEPT !.log = <<Ev(m0, "begin", "", <<>>, action.type, VInt(errors[hi]))>>]

\* the state of run_action when it is entered for action ai on host hi
Enter(outs) ==
    LET m0 == [a |-> ai, h |-> hi, dry |-> dry_run, results |-> results[hi],
               log |-> <<>>, wrap |-> action.wrap_bash, k |-> 0, outs |-> outs,
               exc |-> "", ret |-> VNone]
    IN  [m0 EXCEPT !.log = <<Ev(m0, "begin", "", <<>>, action.type, VInt(errors[hi]))>>]

\* how the processing of one action on one host ended
Terminal(m) ==
    IF m.exc # "" THEN "Failed"
    ELSE IF \E i \in 1..Len(m.log) : m.log[i].ev = "skip" THEN "Skipped"
    ELSE "Succeeded"

\* except subprocess.CalledProcessError as e: host.errors += 1
ExceptTransportOnly(e, m) == IF m.exc = "CalledProcessError" THEN e + 1 ELSE e

\* finally: host.errors += 1
ExceptAlways(e, m) == e + 1

\* except Exception as e: host.errors += 1
Except(e, m) == IF m.exc # "" THEN e + 1 ELSE e

\* a loop without the test of host.errors
EligibleAlways(h) == TRUE

\* "if host.errors <= 1"
EligibleTwice(h) == errors[h] <= 1

\* "if all(h.errors <= 0 for h in hosts)"
EligibleAll(h) == \A g \in Hosts : errors[g] <= 0

\* "if host.errors <= 0"
Eligible(h) == errors[h] <= 0

PathFunctions == {"exists_dir", "not_exists_dir", "exists_file", "not_exists_file"}

RECURSIVE CountCommands(_)
CountCommands(items) ==
    IF items = <<>> THEN 0
    ELSE (IF Head(items) # <<>> /\ Head(items)[1] = "#" THEN 0 ELSE 1)
         + CountCommands(Tail(items))

\* the largest number of subprocesses one run_action of action a can start:
\* one for a path-check guard, then those of the handler
CmdSlots(a) ==
    IF dry_run THEN 0
    ELSE (IF a.when # <<>> /\ a.when[1] \in PathFunctions THEN 1 ELSE 0)
         + (CASE a.type = "command" -> CountCommands(a.items)
              [] a.type = "mkdirs" -> 1
              [] a.type \in {"stat_dir", "stat_file"} -> 2
              [] a.type = "copy" -> Len(a.items)
              [] OTHER -> 0)

\* an except clause that puts the registry back as it was before the action
RunActionRollsBack ==
    /\ Running
    /\ Eligible(hi)
    /\ \E outs \in [1..CmdSlots(action) -> Outcomes] :
       \E m \in {run_action(Enter(outs), action)} :
          /\ m.exc # "diverges"
          /\ \A k \in (m.k + 1)..CmdSlots(action) : outs[k] = 0
          /\ errors' = [errors EXCEPT ![hi] = Except(@, m)]
          /\ results' = [results EXCEPT ![hi] = IF m.exc # "" THEN @ ELSE m.results]
          /\ last' = Append(m.log, Ev(m, "end", m.exc, <<>>, Terminal(m), VInt(m.k)))
          /\ Advance([action EXCEPT !.wrap_bash = m.wrap])
    /\ UNCHANGED <<dry_run, input, output>>

\* one iteration of the inner loop on a host without errors: the try block
\* with the whole of Host.run_action, and the except clause; only a command
\* that is issued has an outcome (m.k commands were issued)
RunAction ==
    /\ Running
    /\ Eligible(hi)
    /\ \E outs \in [1..CmdSlots(action) -> Outcomes] :
       \E m \in {run_action(Enter(outs), action)} :
          /\ m.exc # "diverges"
          /\ \A k \in (m.k + 1)..CmdSlots(action) : outs[k] = 0
          /\ errors' = [errors EXCEPT ![hi] = Except(@, m)]
          /\ results' = [results EXCEPT ![hi] = m.results]
          /\ last' = Append(m.log, Ev(m, "end", m.exc, <<>>, Terminal(m), VInt(m.k)))
          /\ Advance([action EXCEPT !.wrap_bash = m.wrap])
    /\ UNCHANGED <<dry_run, input, output>>

\* one iteration of the inner loop on a host that has errors: nothing is run
PassHost ==
    /\ Running
    /\ ~ Eligible(hi)
    /\ last' = <<>>
    /\ Advance(action)
    /\ UNCHANGED <<dry_run, errors, results, input, output>>

Next == RunAction \/ PassHost

Spec == Init /\ [][Next]_vars

\* ------------------------------------------- a stat action and its guards
\* The run of the docstring of Host.execute_stat: an action file that starts
\* with the stat_file action "stat log" (position 0), followed by NumActions
\* actions guarded by the registered result, outside a dry run.
StatTitles == {"stat log"}
GuardedTitles == {"if present", "if absent", "list if present"}

StatFile == action.title \in (IF ai = 0 THEN StatTitles ELSE GuardedTitles)

StatInit ==
    /\ action \in {c \in Catalogue : c.title \in StatTitles}
    /\ dry_run = FALSE
    /\ errors = [h \in Hosts |-> 0]
    /\ results = [h \in Hosts |-> EmptyResults]
    /\ ai = 0
    /\ hi = 1
    /\ last = <<>>
    /\ input = Idle
    /\ output = Idle

StatRun == RunAction /\ StatFile'

StatPass == PassHost /\ StatFile'

StatNext == StatRun \/ StatPass

StatSpec == StatInit /\ [][StatNext]_vars

\* ------------------------------------- the renderer and the builder alone
\* One call of Host.render_string, SSHClient.render_string or
\* SSHClient.exec_command (up to the command line it hands to
\* _run_remote_command), on arguments drawn from bounded sets.
TplAlphabet == {"x", "{{user}}", "{{home}}"}
Templates == UNION {[1..n -> TplAlphabet] : n \in 0..MaxTplLen}

\* the values of the variables of a context: plain text, or a template again
CtxValues == {<<"bob">>, <<"{{user}}">>, <<"{{home}}">>, <<"{{user}}", "x">>,
              <<"/home/", "{{user}}">>}
Contexts == UNION {[S -> CtxValues] : S \in SUBSET {"user", "home"}}

Commands == {<<"ls /tmp">>, <<"echo ", DQ, "hi", DQ>>}

RenderInputs ==
    [fn : {"render_string", "client_render_string"}, t : Templates, ctx : Contexts]

BuildInputs ==
    [fn : {"exec_command"}, command : Commands, become : BOOLEAN,
     become_user : {"", "www"}, wrap_bash : BOOLEAN, timeout : {0, 5}, h : Hosts]

\* commands handed to exec_command and then to _run_remote_command, and the
\* render contexts of the client: a value of a variable may hold double quotes
ExecCommands == {<<"echo ", DQ, "hi", DQ>>, <<"echo ", "{{user}}">>,
                 <<"psql -c ", DQ, "select '", "{{user}}", "'", DQ>>}
ExecContexts == {[user |-> <<"bob">>], [user |-> <<"Bob ", DQ, "B", DQ>>]}

ExecInputs ==
    [fn : {"run_command"}, command : ExecCommands, become : BOOLEAN,
     wrap_bash : BOOLEAN, ctx : ExecContexts, h : Hosts]

\* copy actions: every combination of become, become_user and of the extra
\* keys force, mode, owner and group, force being true or false when present
CopyActions ==
    {[DefaultAction EXCEPT !.title = "copy", !.type = "copy",
                           !.items = << <<"app.conf">> >>,
                           !.become = b, !.become_user = u,
                           !.extra = ExtraWith(K \cup {"destination"},
                                        [NoExtra EXCEPT !.destination = <<"/etc/app">>,
                                                        !.force = f, !.mode = "644",
                                                        !.owner = "root", !.group = "adm"])] :
        b \in BOOLEAN, u \in {"", "www"}, f \in BOOLEAN,
        K \in SUBSET {"force", "mode", "owner", "group"}}

CopyInputs == [fn : {"execute_copy"}, action : CopyActions, h : Hosts]

\* Host.run_action entered in a dry run on a host with an empty registry
DryMachine(h) ==
    [a |-> 0, h |-> h, dry |-> TRUE, results |-> EmptyResults, log |-> <<>>,
     wrap |-> TRUE, k |-> 0, outs |-> <<>>, exc |-> "", ret |-> VNone]

\* vars.json and the "vars" of each host of hosts.json: any dicts over a few
\* keys, "user" being a key both can hold, with different values
VarDicts == UNION {[S -> {<<"bob">>, <<"/home">>}] : S \in SUBSET {"user", "home"}}
HostVarDicts == UNION {[S -> {<<"alice">>}] : S \in SUBSET {"user", "root"}}
LoadInputs == [fn : {"load_hosts"}, vars : VarDicts, host_vars : [Hosts -> HostVarDicts]]

\* load_hosts before the first iteration of "for k, v in selected_hosts.items()":
\* vars is the dict of global variables, contexts those of the hosts built so far
Loading(gvars) ==
    [fn |-> "load_hosts", exc |-> "", text |-> <<>>, vars |-> gvars, contexts |-> <<>>]

\* one iteration of the loop of load_hosts, for a host with the given "vars"
load_host(st, hv) == [st EXCEPT !.contexts = Append(@, merge_dicts(st.vars, hv))]

\* expressions handed to Host.evaluate_expression: the docstring's eval(1 + 2),
\* an eval and a path check with parentheses inside the argument, a path check,
\* and an eval whose argument comes out of the rendering
EvalExpressions ==
    {<<"eval", "(", "1", "+", "2", ")">>,
     <<"eval", "(", "(", "1", "+", "2", ")", ")">>,
     <<"eval", "(", "1", "{{blank}}", ")">>,
     <<"exists_dir", "(", SQ, "/srv", SQ, ")">>,
     <<"not_exists_file", "(", SQ, "/a", "(", "b", ")", "/c", SQ, ")">>}

EvalInputs == [fn : {"evaluate_expression"}, expression : EvalExpressions, h : Hosts]

\* Host.run_action entered outside a dry run on a host with an empty registry
\* whose transport answers the first command with exit status 0
LiveMachine(h) == [DryMachine(h) EXCEPT !.dry = FALSE, !.outs = <<1>>]

\* the four path-existence guards, of an action that declares a register or
\* none, on a host whose registry holds something under r1 or nothing, the
\* remote test exiting non-zero (0) or zero
GuardNames == {"exists_dir", "not_exists_dir", "exists_file", "not_exists_file"}
GuardInputs ==
    [fn : {"path_guard"}, expression : {PathGuard(f, <<"/srv">>) : f \in GuardNames},
     register : {"", "r1"}, become : BOOLEAN, before : {VAbsent, VStr(<<"old">>)},
     out : {0, 1}, h : Hosts]

\* Host.run_action at its guard, outside a dry run
GuardMachine(i) ==
    [LiveMachine(i.h) EXCEPT !.results = [EmptyResults EXCEPT !["r1"] = i.before],
                             !.outs = <<i.out>>]

Pending == [fn |-> "", exc |-> "pending", text |-> <<>>]

PureInit ==
    /\ input \in RenderInputs \cup BuildInputs \cup ExecInputs \cup CopyInputs
                \cup LoadInputs \cup EvalInputs \cup GuardInputs
    /\ output = Pending
    /\ action = DefaultAction
    /\ dry_run = FALSE
    /\ errors = [h \in Hosts |-> 0]
    /\ results = [h \in Hosts |-> EmptyResults]
    /\ ai = NumActions + 1
    /\ hi = 1
    /\ last = <<>>

\* Host.render_string(string) with self.context.data = ctx; a loop that is
\* still running after RenderFuel passes is recorded as exc "diverges"
CallRender ==
    /\ output = Pending
    /\ input.fn = "render_string"
    /\ output' = [fn |-> input.fn] @@ render_string(input.t, input.ctx)
    /\ UNCHANGED <<action, dry_run, errors, results, ai, hi, last, input>>

\* SSHClient.render_string(string) with self.render_context = ctx
CallClientRender ==
    /\ output = Pending
    /\ input.fn = "client_render_string"
    /\ output' = [fn |-> input.fn] @@ client_render_string(input.t, input.ctx)
    /\ UNCHANGED <<action, dry_run, errors, results, ai, hi, last, input>>

\* SSHClient.exec_command(command, become, become_user, wrap_bash) of a client
\* constructed with the timeout, for host h
CallBuild ==
    /\ output = Pending
    /\ input.fn = "exec_command"
    /\ output' = [fn |-> input.fn, exc |-> "",
                  text |-> BuildSsh(input.command, input.become, input.become_user,
                                    input.wrap_bash, input.timeout, input.h)]
    /\ UNCHANGED <<action, dry_run, errors, results, ai, hi, last, input>>

\* SSHClient.exec_command followed by _run_remote_command up to the call of
\* subprocess.check_output: the command line is built, then rendered with the
\* client's render_context, and the result is what the subprocess gets
CallExec ==
    /\ output = Pending
    /\ input.fn = "run_command"
    /\ output' = [fn |-> input.fn] @@
                  client_render_string(BuildSsh(input.command, input.become, "",
                                                input.wrap_bash, 0, input.h),
                                       input.ctx)
    /\ UNCHANGED <<action, dry_run, errors, results, ai, hi, last, input>>

\* Host.execute_copy of a copy action with one item, in a dry run: text is the
\* transfer command the client logs, which is the one it would run
CallCopy ==
    /\ output = Pending
    /\ input.fn = "execute_copy"
    /\ \E m \in {execute_copy(DryMachine(input.h), input.action)} :
          output' = [fn |-> input.fn, exc |-> m.exc,
                     text |-> IF m.log = <<>> THEN <<>> ELSE m.log[1].cmd]
    /\ UNCHANGED <<action, dry_run, errors, results, ai, hi, last, input>>

\* load_hosts: the next host of hosts.json gets its context
LoadHost ==
    /\ input.fn = "load_hosts"
    /\ \E st \in {IF output = Pending THEN Loading(input.vars) ELSE output} :
          /\ Len(st.contexts) < NumHosts
          /\ output' = load_host(st, input.host_vars[Len(st.contexts) + 1])
    /\ UNCHANGED <<action, dry_run, errors, results, ai, hi, last, input>>

\* Host.evaluate_expression(expression, action) with an action of default
\* fields: val is the value returned, text the command line of the path check
CallEvaluate ==
    /\ output = Pending
    /\ input.fn = "evaluate_expression"
    /\ \E m \in {evaluate_expression(LiveMachine(input.h), input.expression,
                                      DefaultAction, "guard")} :
          output' = [fn |-> input.fn, exc |-> m.exc,
                     text |-> IF m.log = <<>> THEN <<>> ELSE m.log[1].cmd,
                     val |-> m.ret]
    /\ UNCHANGED <<action, dry_run, errors, results, ai, hi, last, input>>

\* the guard of Host.run_action: evaluate_expression(action.when, action) for
\* an action with the given register and become; reg is the registry after
\* the call, cmds the number of transport commands that ran
CallGuard ==
    /\ output = Pending
    /\ input.fn = "path_guard"
    /\ \E m \in {evaluate_expression(GuardMachine(input), input.expression,
                      [DefaultAction EXCEPT !.type = "command", !.when = input.expression,
                                            !.register = input.register,
                                            !.become = input.become], "guard")} :
          output' = [fn |-> input.fn, exc |-> m.exc,
                     text |-> IF m.log = <<>> THEN <<>> ELSE m.log[1].cmd,
                     val |-> m.ret, reg |-> m.results, cmds |-> m.k]
    /\ UNCHANGED <<action, dry_run, errors, results, ai, hi, last, input>>

PureNext ==
    \/ CallRender \/ CallClientRender \/ CallBuild \/ CallExec \/ CallCopy
    \/ LoadHost \/ CallEvaluate \/ CallGuard

PureSpec == PureInit /\ [][PureNext]_vars

\* ================================================================== claims
\* The trace `last` after a step is the trace of the iteration the step ran
\* (action ai on host hi of the state before the step); it is empty after an
\* iteration that ran nothing.

HasEv(l, ev) == \E i \in 1..Len(l) : l[i].ev = ev
EndOf(l) == l[Len(l)]
\* the transport commands of the handler (subprocesses, and dry-run commands)
HandlerCmds(l) == {i \in 1..Len(l) : l[i].ev \in {"cmd", "dry"} /\ l[i].by = "handler"}
AllCmds(l) == {i \in 1..Len(l) : l[i].ev \in {"cmd", "dry"}}
FailedCmds(l) == {i \in 1..Len(l) : l[i].ev = "cmd" /\ l[i].name = "exit1"}
NextPosition == IF hi < NumHosts THEN <<ai, hi + 1>> ELSE <<ai + 1, 1>>
OthersUntouched ==
    \A g \in Hosts \ {hi} : errors'[g] = errors[g] /\ results'[g] = results[g]

\* C1: once a host's error counter is greater than 0, no step of the run does
\* anything for that host: no guard is evaluated, no handler is dispatched, no
\* transport command is issued, and its counter and registry stay as they are.
C1_FailFast ==
    [][\A h \in Hosts : errors[h] > 0 =>
          /\ errors'[h] = errors[h]
          /\ results'[h] = results[h]
          /\ \A i \in 1..Len(last') : last'[i].h # h]_vars

\* a host has failed and a later iteration of the loop has passed over a host
C1_Witness == \E h \in Hosts : errors[h] > 0 /\ ai > 1 /\ last = <<>>

\* C2: every iteration that reaches a host without errors processes the action
\* (guard evaluated when declared, handler dispatched when the guard is absent
\* or truthy), whatever the counters of the other hosts; the "echo hi" command
\* leaves the host's counter at 1 when its transport fails and at 0 otherwise.
C2_Independent ==
    [][(Running /\ errors[hi] = 0 /\ <<ai', hi'>> # <<ai, hi>>) =>
          /\ last' # <<>>
          /\ last'[1].ev = "begin" /\ last'[1].a = ai /\ last'[1].h = hi
          /\ (action.when # <<>> => last'[2].ev = "guard")
          /\ (action.when = <<>> => HasEv(last', "dispatch"))
          /\ (\A i \in 1..Len(last') :
                 last'[i].ev = "guarded" /\ Truthy(last'[i].val) => HasEv(last', "dispatch"))
          /\ (action.title = "echo" =>
                 errors'[hi] = IF FailedCmds(last') # {} THEN 1 ELSE 0)
          /\ OthersUntouched]_vars

\* host 1 failed the first action and host 2 has run its "echo hi" with success
C2_Witness ==
    /\ errors[1] = 1
    /\ errors[2] = 0
    /\ \E i \in 1..Len(last) :
          /\ last[i].ev = "cmd" /\ last[i].name = "exit0"
          /\ last[i].a = 1 /\ last[i].h = 2
          /\ FindTok(last[i].cmd, "echo hi", 1) # 0

C4_Order ==
    [][/\ \A i \in 1..Len(last') : last'[i].a = ai /\ last'[i].h = hi
       /\ <<ai', hi'>> = NextPosition
       /\ (last' # <<>> => last'[1].ev = "begin" /\ EndOf(last').ev = "end")]_vars

\* the first action has been run on the last host and the second action is next
C4_Witness ==
    /\ ai = 2 /\ hi = 1
    /\ last # <<>>
    /\ last[1].a = 1 /\ last[1].h = NumHosts
    /\ HasEv(last, "reg")

\* C5: the handler is dispatched iff the action has no guard or the guard's
\* value is truthy; a falsy value ('' , False, 0) skips the action: no handler
\* command, no registry write, counter and registry unchanged.
C5_Guard ==
    [][last' # <<>> =>
          /\ HasEv(last', "dispatch") <=>
                (\/ action.when = <<>>
                 \/ \E i \in 1..Len(last') :
                       last'[i].ev = "guarded" /\ Truthy(last'[i].val))
          /\ \A i \in 1..Len(last') :
                (/\ last'[i].ev = "guarded"
                 /\ \/ ~ Truthy(last'[i].val)
                    \/ last'[i].val \in {VStr(<<>>), VBool(FALSE), VInt(0)})
                => /\ HasEv(last', "skip")
                   /\ EndOf(last').name = "Skipped"
                   /\ HandlerCmds(last') = {}
                   /\ ~ HasEv(last', "reg")
                   /\ results' = results
                   /\ errors' = errors]_vars

\* a guard evaluated to 0 and the action was skipped
C5_Witness ==
    \E i \in 1..Len(last) :
       last[i].ev = "guarded" /\ last[i].val = VInt(0) /\ HasEv(last, "skip")

\* C6: an iteration ends in exactly one of Skipped, Succeeded, Failed; the
\* guard, when declared, is evaluated before any step of the handler; nothing
\* but the "skipped" message follows a skip; the counter goes up by one iff
\* the end state is Failed.
C6_Terminal ==
    [][last' # <<>> =>
          /\ last'[1].ev = "begin"
          /\ EndOf(last').ev = "end"
          /\ \A i \in 2..(Len(last') - 1) : last'[i].ev \notin {"begin", "end"}
          /\ EndOf(last').name \in {"Skipped", "Succeeded", "Failed"}
          /\ EndOf(last').name = "Failed" <=> EndOf(last').by # ""
          /\ EndOf(last').name = "Skipped" <=> HasEv(last', "skip")
          /\ \A i \in 1..Len(last') :
                (last'[i].ev \in {"dispatch", "reg"} \/ last'[i].by = "handler")
                => \/ action.when = <<>>
                   \/ \E j \in 1..(i - 1) : last'[j].ev = "guarded"
          /\ \A i \in 1..Len(last') :
                last'[i].ev = "skip" =>
                   \A j \in (i + 1)..Len(last') : last'[j].ev \in {"print", "end"}
          /\ errors'[hi] = errors[hi] + (IF EndOf(last').name = "Failed" THEN 1 ELSE 0)]_vars

\* a dispatched handler has failed and the host's counter is 1
C6_Witness ==
    /\ last # <<>>
    /\ HasEv(last, "dispatch")
    /\ EndOf(last).name = "Failed"
    /\ errors[last[1].h] = 1

\* the last registry write under n in the trace l, 0 if none
LastReg(l, n) ==
    LET S == {i \in 1..Len(l) : l[i].ev = "reg" /\ l[i].name = n}
    IN  IF S = {} THEN 0 ELSE CHOOSE i \in S : \A j \in S : j <= i

\* C7: after an iteration the registry of its host holds, under every name,
\* the value of the last write of the iteration under that name, or what it
\* held before if there was none; a name appears only if the dispatched action
\* declares it as register; the registries of the other hosts are untouched.
C7_LastWriter ==
    [][last' # <<>> =>
          /\ \A n \in RegNames :
                results'[hi][n] = IF LastReg(last', n) = 0 THEN results[hi][n]
                                  ELSE last'[LastReg(last', n)].val
          /\ \A n \in RegNames :
                (results[hi][n].kind = "absent" /\ results'[hi][n].kind # "absent")
                => action.register = n /\ HasEv(last', "dispatch")
          /\ \A n \in RegNames : results'[hi][n].kind # "none"
          /\ \A g \in Hosts \ {hi} : results'[g] = results[g]]_vars

\* one action has written two different values under one name: the second stays
C7_Witness ==
    \E i, j \in 1..Len(last) :
       /\ i < j
       /\ last[i].ev = "reg" /\ last[j].ev = "reg"
       /\ last[i].name = last[j].name
       /\ last[i].val # last[j].val
       /\ j = LastReg(last, last[j].name)
       /\ results[last[j].h][last[j].name] = last[j].val
       /\ \E g \in Hosts : results[g] = EmptyResults

\* C8: a guard or message item results['k'] evaluates to the value stored under
\* k in the host's registry, string or mapping alike, and a message action
\* leaves the registry as it was.
C8_Lookup ==
    [][last' # <<>> =>
          /\ \A i \in 1..Len(last'), k \in RegNames :
                (last'[i].ev \in {"guarded", "print"} /\ last'[i].expr = Lookup(k))
                => /\ results[hi][k].kind # "absent"
                   /\ last'[i].val = results[hi][k]
          /\ (action.type = "message" => results' = results)]_vars

\* results['r1'] was printed while r1 held the mapping of an existing path
C8_Witness ==
    \E i \in 1..Len(last) :
       /\ last[i].ev = "print"
       /\ last[i].expr = Lookup("r1")
       /\ last[i].val.kind = "dict"
       /\ last[i].val.flag
       /\ last[i].val = results[last[i].h]["r1"]

\* the name a guard looks up in the registry, "" if it looks up none
GuardKey(when) ==
    IF \E k \in RegNames : when = Lookup(k) \/ when = EvalOf(SelfExists(k))
    THEN CHOOSE k \in RegNames : when = Lookup(k) \/ when = EvalOf(SelfExists(k))
    ELSE ""

\* C9: a guard that looks up a name absent from the host's registry makes the
\* action Failed: counter plus one, no skip, no dispatch, and the host is no
\* longer eligible.
C9_UnregisteredGuard ==
    [][(/\ last' # <<>>
        /\ GuardKey(action.when) # ""
        /\ results[hi][GuardKey(action.when)].kind = "absent") =>
          /\ EndOf(last').name = "Failed"
          /\ errors'[hi] = errors[hi] + 1
          /\ errors'[hi] > 0
          /\ ~ HasEv(last', "dispatch")
          /\ ~ HasEv(last', "skip")
          /\ AllCmds(last') = {}]_vars

\* the guard results['r1'] was evaluated on a host without r1 and raised
C9_Witness ==
    /\ Len(last) = 3
    /\ last[2].ev = "guard"
    /\ last[2].expr = Lookup("r1")
    /\ EndOf(last).by = "KeyError"
    /\ errors[last[1].h] = 1

\* C10 as stated: an iteration on an action of unknown type fails: counter plus
\* one and no transport command at all.
C10_Original ==
    [][(last' # <<>> /\ action.type \notin KnownTypes) =>
          /\ EndOf(last').name = "Failed"
          /\ errors'[hi] = errors[hi] + 1
          /\ AllCmds(last') = {}]_vars

\* C10 amended: an action of unknown type whose guard is absent or truthy
\* fails: counter plus one, no transport command of a handler, no registry
\* write, the other hosts untouched and the loop goes on.
C10_UnknownType ==
    [][(last' # <<>> /\ action.type \notin KnownTypes /\ HasEv(last', "dispatch")) =>
          /\ EndOf(last').name = "Failed"
          /\ errors'[hi] = errors[hi] + 1
          /\ HandlerCmds(last') = {}
          /\ results' = results
          /\ OthersUntouched
          /\ <<ai', hi'>> = NextPosition]_vars

\* an action of unknown type was dispatched after its path guard and failed
C10_Witness ==
    /\ last # <<>>
    /\ last[1].name \notin KnownTypes
    /\ HasEv(last, "dispatch")
    /\ AllCmds(last) # {}
    /\ EndOf(last).by = "Exception"
    /\ errors[last[1].h] = 1

\* the transport commands of the handler, in the order they were issued
HandlerCmdSeq(l) ==
    LET IsHandlerCmd(e) == e.ev \in {"cmd", "dry"} /\ e.by = "handler"
    IN  SelectSeq(l, IsHandlerCmd)

\* the items of a command action that are not comment lines
NonComment(items) ==
    LET IsCommand(item) == ~ (item # <<>> /\ item[1] = "#")
    IN  SelectSeq(items, IsCommand)

\* the command line of item number i of the non-comment items of action a on
\* host h, as the transport gets it
ExpectedCommand(a, h, i) ==
    client_render_string(
        BuildSsh((IF "chdir" \in a.extra.keys /\ a.extra.chdir # <<>>
                     THEN <<"cd ">> \o a.extra.chdir \o <<" && ">> ELSE <<>>)
                 \o NonComment(a.items)[i],
                 a.become, a.become_user, a.wrap_bash, a.timeout, h),
        HostContext(h))

\* C11: a dispatched command action issues the commands of its non-comment
\* items in item order, each at most once, none for a comment item, each after
\* the directory change when extra.chdir is set; only the last command issued
\* can have failed, and the items after a failed command are not run.
C11_CommandItems ==
    [][(last' # <<>> /\ action.type = "command" /\ HasEv(last', "dispatch")) =>
          LET cmds == HandlerCmdSeq(last')
              n == Len(NonComment(action.items))
          IN  /\ Len(cmds) <= n
              /\ \A i \in 1..Len(cmds) :
                    /\ cmds[i].cmd = ExpectedCommand(action, hi, i).text
                    /\ (i < Len(cmds) => cmds[i].name # "exit1")
                    /\ ("chdir" \in action.extra.keys =>
                          \E j \in 1..Len(cmds[i].cmd) :
                             SubSeq(cmds[i].cmd, j, j + 2) = <<"cd ", "/opt", " && ">>)
              /\ (Len(cmds) < n =>
                    \/ Len(cmds) > 0 /\ cmds[Len(cmds)].name = "exit1"
                    \/ EndOf(last').by = "UndefinedError")
              /\ (Len(cmds) > 0 /\ cmds[Len(cmds)].name = "exit1"
                    => EndOf(last').name = "Failed")]_vars

\* the first command of "two commands" failed after its directory change and
\* the second command was not run
C11_Witness ==
    /\ Len(HandlerCmdSeq(last)) = 1
    /\ HandlerCmdSeq(last)[1].name = "exit1"
    /\ FindTok(HandlerCmdSeq(last)[1].cmd, "ls ", 1) # 0
    /\ FindTok(HandlerCmdSeq(last)[1].cmd, "cd ", 1) # 0
    /\ EndOf(last).name = "Failed"

IsStat(a) == a.type \in {"stat_dir", "stat_file"}

\* C12: a dispatched stat_dir / stat_file action whose existence test exits
\* non-zero (the path is absent) issues no stat query, leaves exactly
\* {exists: false} under its register name, and ends Succeeded: the counter is
\* unchanged and the host stays eligible.
C12_StatAbsent ==
    [][(/\ last' # <<>> /\ IsStat(action) /\ HasEv(last', "dispatch")
        /\ Len(HandlerCmdSeq(last')) > 0
        /\ HandlerCmdSeq(last')[1].name = "exit1") =>
          /\ Len(HandlerCmdSeq(last')) = 1
          /\ FindTok(HandlerCmdSeq(last')[1].cmd,
                     IF action.type = "stat_dir" THEN "test -d " ELSE "test -e ", 1) # 0
          /\ results'[hi][action.register] = VDict(FALSE, NoFields)
          /\ \A n \in RegNames \ {action.register} : results'[hi][n] = results[hi][n]
          /\ EndOf(last').name = "Succeeded"
          /\ errors'[hi] = errors[hi]
          /\ errors'[hi] <= 0]_vars

\* a stat_dir action found its path absent: r1 holds {exists: false} and the
\* host has no error
C12_Witness ==
    /\ last # <<>>
    /\ last[1].name = "stat_dir"
    /\ Len(HandlerCmdSeq(last)) = 1
    /\ HandlerCmdSeq(last)[1].name = "exit1"
    /\ results[last[1].h]["r1"] = VDict(FALSE, NoFields)
    /\ errors[last[1].h] = 0

\* the mapping of a present path: exists = true and, for each of the fourteen
\* fields, the value the stat query returned for it
PresentMapping(path, r) ==
    VDict(TRUE, [i \in 1..Len(StatFieldNames) |->
                    << <<StatFieldNames[i]>>, StatValue(StatFieldNames[i], path, r) >>])

\* C13 as stated: a dispatched stat action whose test and stat query both
\* succeed leaves, under its register name, exists = true and the fourteen
\* fields, each with the value the query returned for it, whatever the path
\* and the values are.
C13_Original ==
    [][(/\ last' # <<>> /\ IsStat(action) /\ HasEv(last', "dispatch")
        /\ Len(HandlerCmdSeq(last')) = 2
        /\ \A i \in 1..2 : HandlerCmdSeq(last')[i].name = "exit0") =>
          \E r \in 1..NumReplies :
             results'[hi][action.register] =
                PresentMapping(client_render_string(action.extra.path, HostContext(hi)).text, r)]_vars

\* an action that lacks a parameter its handler requires
LacksRequired(a) ==
    \/ IsStat(a) /\ (a.register = "" \/ "path" \notin a.extra.keys)
    \/ a.type = "copy" /\ "destination" \notin a.extra.keys

\* C14: a dispatched stat_dir / stat_file action without register or without
\* extra.path, and a dispatched copy action without extra.destination, end
\* Failed before any transport command of the handler, with the registry of
\* the host unchanged.
C14_Validate ==
    [][(last' # <<>> /\ LacksRequired(action) /\ HasEv(last', "dispatch")) =>
          /\ EndOf(last').name = "Failed"
          /\ EndOf(last').by = "Exception"
          /\ HandlerCmds(last') = {}
          /\ ~ HasEv(last', "reg")
          /\ results' = results
          /\ errors'[hi] = errors[hi] + 1]_vars

\* a copy action without destination has failed without a transfer, and no
\* host has anything registered
C14_Witness ==
    /\ last # <<>>
    /\ last[1].name = "copy"
    /\ HasEv(last, "dispatch")
    /\ EndOf(last).by = "Exception"
    /\ AllCmds(last) = {}
    /\ errors[last[1].h] = 1
    /\ results = [h \in Hosts |-> EmptyResults]

\* C15 as stated: whenever a transport command issued for an action, by its
\* guard or by its handler, exits non-zero, the action ends Failed, the counter
\* of the host goes up by one and the host is no longer eligible.
C15_Original ==
    [][\A i \in FailedCmds(last') :
          /\ EndOf(last').name = "Failed"
          /\ errors'[last'[i].h] = errors[last'[i].h] + 1
          /\ errors'[last'[i].h] > 0]_vars

\* the command line carries the timeout option of its transport with value t
HasTimeoutOption(cmdline, t) ==
    \E j \in 1..(Len(cmdline) - 1) :
       /\ cmdline[j] \in {"-o ConnectTimeout=", "--timeout="}
       /\ cmdline[j + 1] = ToString(t)

NoTimeoutOption(cmdline) ==
    \A j \in 1..Len(cmdline) : cmdline[j] \notin {"-o ConnectTimeout=", "--timeout="}

\* C16 as stated: every transport command issued while an action with timeout
\* t > 0 is processed, the path checks of its guard included, carries the
\* timeout option with value t; with timeout 0 none carries a timeout option.
C16_Original ==
    [][\A i \in AllCmds(last') :
          IF action.timeout > 0
          THEN HasTimeoutOption(last'[i].cmd, action.timeout)
          ELSE NoTimeoutOption(last'[i].cmd)]_vars

RECURSIVE Concrete(_, _, _)
\* every placeholder of t names a variable of ctx whose value is concrete in
\* turn, through at most depth variables
Concrete(t, ctx, depth) ==
    \A i \in 1..Len(t) :
       IsPlaceholder(t[i]) =>
          /\ PHVar[t[i]] \in DOMAIN ctx
          /\ depth > 0
          /\ Concrete(ctx[PHVar[t[i]]], ctx, depth - 1)

\* the renderer the call in progress uses, applied to t
RenderAs(fn, t, ctx) ==
    IF fn = "render_string" THEN render_string(t, ctx) ELSE client_render_string(t, ctx)

IsRenderCall == input.fn \in {"render_string", "client_render_string"}

\* C17: for every template and context in which every placeholder resolves,
\* possibly through variables that are templates, to a concrete value, the
\* renderer returns a text without placeholders, and rendering that text again
\* returns it unchanged.
C17_FixedPoint ==
    (/\ IsRenderCall
     /\ output # Pending
     /\ Concrete(input.t, input.ctx, Cardinality(DOMAIN input.ctx))) =>
        /\ output.exc = ""
        /\ \A i \in 1..Len(output.text) : ~ IsPlaceholder(output.text[i])
        /\ RenderAs(input.fn, output.text, input.ctx) = [exc |-> "", text |-> output.text]

\* "{{home}}x" was rendered through home = "/home/{{user}}" and user = "bob"
C17_Witness ==
    /\ input.fn = "render_string"
    /\ input.t = <<"{{home}}", "x">>
    /\ input.ctx = [user |-> <<"bob">>, home |-> <<"/home/", "{{user}}">>]
    /\ output.text = <<"/home/", "bob", "x">>

\* C18 as stated: each of the two renderers, applied to a template that
\* references a variable absent from the context, fails with an
\* undefined-variable error, for every such context, the empty one included.
C18_Original ==
    (/\ IsRenderCall
     /\ output # Pending
     /\ \E i \in 1..Len(input.t) :
           IsPlaceholder(input.t[i]) /\ PHVar[input.t[i]] \notin DOMAIN input.ctx) =>
        output.exc = "UndefinedError"

\* C19 as stated: on every template and context the renderer returns a fixed
\* point, or fails with an undefined-variable error, or fails with an
\* unstable-template error when the substitution does not converge; it never
\* keeps looping.
C19_Original ==
    (IsRenderCall /\ output # Pending) =>
        output.exc \in {"", "UndefinedError", "UnstableTemplateError"}

\* the privilege-elevation prefix the builder is asked for
ElevationPrefix(become, become_user) ==
    IF ~ become THEN <<>>
    ELSE IF become_user = "" THEN <<"sudo -H --non-interactive ">>
    ELSE <<"sudo -H --non-interactive ", "-u ", become_user, " ">>

\* C20: the command line ends with one double-quoted argument placed right
\* after the remote address; inside it come, in this order, the
\* non-interactive elevation prefix (targeting become_user when it is given,
\* naming no user when it is empty, absent when become is false) and then,
\* with wrap_bash, the shell invocation wrapping "cd && <command>", every
\* double quote inside the argument being escaped.
C20_Builder ==
    (input.fn = "exec_command" /\ output # Pending) =>
        LET c == output.text
            q == FindTok(c, DQ, 1)
            ra == remote_address(input.h)
            inner == SubSeq(c, q + 1, Len(c) - 1)
            pre == ElevationPrefix(input.become, input.become_user)
            rest == SubSeq(inner, Len(pre) + 1, Len(inner))
        IN  /\ q > Len(ra) + 1
            /\ SubSeq(c, q - 1 - Len(ra), q - 1) = ra \o <<" ">>
            /\ c[Len(c)] = DQ
            /\ \A i \in 1..Len(inner) : inner[i] # DQ
            /\ SubSeq(inner, 1, Len(pre)) = pre
            /\ (~ input.become => FindTok(c, "sudo -H --non-interactive ", 1) = 0)
            /\ (input.become_user = "" => FindTok(c, "-u ", 1) = 0)
            /\ rest = IF input.wrap_bash
                      THEN <<"/bin/bash -c ", EscDQ, "cd && ">>
                           \o [i \in 1..Len(input.command) |->
                                 IF input.command[i] = DQ THEN EscDQ ELSE input.command[i]]
                           \o <<EscDQ>>
                      ELSE [i \in 1..Len(input.command) |->
                              IF input.command[i] = DQ THEN EscDQ ELSE input.command[i]]

\* build('echo "hi"', become = true, become_user = "www", wrap_bash = true)
\* for the client of host 1
C20_Witness ==
    /\ input.fn = "exec_command"
    /\ input.become /\ input.become_user = "www" /\ input.wrap_bash
    /\ output.text = <<"ssh ", "deploy", "@", "host1", " ", DQ,
                       "sudo -H --non-interactive ", "-u ", "www", " ",
                       "/bin/bash -c ", EscDQ, "cd && ",
                       "echo ", EscDQ, "hi", EscDQ, EscDQ, DQ>>

\* the text between the outer pair of double quotes of a command line
InnerCommand(c) == SubSeq(c, FindTok(c, DQ, 1) + 1, Len(c) - 1)

\* C21 as stated: in the command line handed to the subprocess no unescaped
\* double quote stands inside the inner command, whatever the command and the
\* context are: the quotes of the command, of the wrap and of the values of
\* the template variables expanded into the command are all escaped.
C21_Original ==
    (input.fn = "run_command" /\ output # Pending /\ output.exc = "") =>
        /\ output.text[Len(output.text)] = DQ
        /\ \A i \in 1..Len(InnerCommand(output.text)) : InnerCommand(output.text)[i] # DQ

\* the tokens p stand in c, next to each other
Contains(c, p) == \E j \in 1..Len(c) : SubSeq(c, j, j + Len(p) - 1) = p

\* the value of key k of extra, '' when the key is absent
ExtraOr(e, k) == IF k \in e.keys THEN e[k] ELSE ""

\* C22: the transfer command of a copy action carries --ignore-existing iff
\* extra.force is absent or false; it carries extra.mode as --chmod and
\* extra.owner, extra.group as --chown, unchanged, and neither option when the
\* keys are absent; with become the elevation stands in --rsync-path (the
\* remote rsync, as become_user or root) and nowhere else, the local command
\* being plain rsync; without become there is no elevation at all.
C22_Copy ==
    (input.fn = "execute_copy" /\ output # Pending) =>
        LET c == output.text
            a == input.action
            e == a.extra
            path == <<"--rsync-path=", DQ, "sudo -u ",
                      IF a.become_user # "" THEN a.become_user ELSE "root", " rsync", DQ>>
        IN  /\ output.exc = ""
            /\ c[1] = "rsync -avz --progress "
            /\ Contains(c, <<"--ignore-existing ">>) <=> ~ ("force" \in e.keys /\ e.force)
            /\ IF "mode" \in e.keys THEN Contains(c, <<"--chmod=", DQ, e.mode, DQ>>)
               ELSE ~ Contains(c, <<"--chmod=">>)
            /\ IF "owner" \in e.keys \/ "group" \in e.keys
               THEN Contains(c, <<"--chown=", DQ, ExtraOr(e, "owner"), ":",
                                  ExtraOr(e, "group"), DQ>>)
               ELSE ~ Contains(c, <<"--chown=">>)
            /\ IF a.become
               THEN /\ Contains(c, path)
                    /\ \A j \in 1..Len(c) :
                          c[j] = "sudo -u " => SubSeq(c, j - 2, j + 3) = path
               ELSE ~ Contains(c, <<"sudo -u ">>) /\ ~ Contains(c, <<"--rsync-path=">>)
            /\ SubSeq(c, Len(c) - 4 - Len(remote_address(input.h)), Len(c)) =
                  <<DQ>> \o remote_address(input.h) \o <<":", "/etc/app", DQ, " ">>

\* a copy with force, mode and owner set, as www, for the client of host 1
C22_Witness ==
    /\ input.fn = "execute_copy"
    /\ output.text = <<"rsync -avz --progress ", "--chmod=", DQ, "644", DQ, " ",
                       "--chown=", DQ, "root", ":", "", DQ, " ",
                       "--rsync-path=", DQ, "sudo -u ", "www", " rsync", DQ, " ",
                       DQ, "files/", "app.conf", DQ, " ",
                       DQ, "deploy", "@", "host1", ":", "/etc/app", DQ, " ">>

\* C23: while the hosts are loaded, the context of every host built so far is
\* the merge of the global variables and of that host's variables: its keys
\* are those of the two dicts, a key of the host's variables has the host's
\* value, a key of the global variables only has the global value; the global
\* variables are as they were loaded, and building the context of a later
\* host has left the contexts of the earlier hosts as they were.
C23_Context ==
    (input.fn = "load_hosts" /\ output # Pending) =>
        /\ output.vars = input.vars
        /\ \A h \in 1..Len(output.contexts) :
              LET ctx == output.contexts[h]
                  gv == input.vars
                  hv == input.host_vars[h]
              IN  /\ DOMAIN ctx = (DOMAIN gv) \cup (DOMAIN hv)
                  /\ \A k \in DOMAIN hv : ctx[k] = hv[k]
                  /\ \A k \in (DOMAIN gv) \ (DOMAIN hv) : ctx[k] = gv[k]

\* both hosts are loaded; host 1 overrides user, host 2 adds root and keeps
\* the global user
C23_Witness ==
    /\ input.fn = "load_hosts"
    /\ input.vars = [user |-> <<"bob">>, home |-> <<"/home">>]
    /\ output # Pending
    /\ Len(output.contexts) >= 2
    /\ output.contexts[1] = [user |-> <<"alice">>, home |-> <<"/home">>]
    /\ output.contexts[2] = [user |-> <<"bob">>, home |-> <<"/home">>, root |-> <<"alice">>]
    /\ output.vars = [user |-> <<"bob">>, home |-> <<"/home">>]

\* the lines a message action has printed, in order
Printed(l) ==
    LET IsPrint(e) == e.ev = "print"
    IN  SelectSeq(l, IsPrint)

\* C24 as stated: a dispatched message action, when no transport command
\* fails, evaluates and prints every one of its items, in order, whatever the
\* form of the item (literal, results[...], eval(...), path check), ends
\* Succeeded and leaves the counter of the host unchanged.
C24_Original ==
    [][(/\ last' # <<>> /\ action.type = "message" /\ HasEv(last', "dispatch")
        /\ FailedCmds(last') = {}) =>
          /\ Len(Printed(last')) = Len(action.items)
          /\ \A i \in 1..Len(Printed(last')) : Printed(last')[i].expr = action.items[i]
          /\ EndOf(last').name = "Succeeded"
          /\ errors'[hi] = errors[hi]]_vars

\* C25: evaluate("eval(1 + 2)") returns 3.  For an eval(...) or path-check
\* expression the argument is the text strictly between the first "(" and the
\* first ")" of the rendered expression: eval returns the value of that text,
\* a path check tests the path that text denotes, and both fail as that text
\* fails; an argument with parentheses inside is cut at its first ")" and
\* fails with a syntax error.
C25_InnerText ==
    (input.fn = "evaluate_expression" /\ output # Pending) =>
        LET t == render_string(input.expression, HostContext(input.h)).text
            o == FindTok(t, "(", 1)
            c == FindTok(t, ")", 1)
            v == PyEval(SubSeq(t, o + 1, c - 1), EmptyResults)
        IN  /\ (input.expression = <<"eval", "(", "1", "+", "2", ")">> =>
                  output.exc = "" /\ output.val = VInt(3))
            /\ output.exc = v.exc
            /\ (v.exc = "" /\ t[1] = "eval") => output.val = v.val /\ output.text = <<>>
            /\ (v.exc = "" /\ t[1] # "eval") =>
                  \E test \in {"test -d ", "test -e "} :
                     Contains(output.text, <<test, EscDQ>> \o Str(v.val) \o <<EscDQ>>)
            /\ (\E j \in (o + 1)..(c - 1) : t[j] = "(") => output.exc = "SyntaxError"

\* "eval((1 + 2))" was evaluated and failed on the cut text "(1 + 2"
C25_Witness ==
    /\ input.fn = "evaluate_expression"
    /\ input.expression = <<"eval", "(", "(", "1", "+", "2", ")", ")">>
    /\ output.exc = "SyntaxError"

ExistsGuard(r) == EvalOf(SelfExists(r))
NotExistsGuard(r) == EvalOf(<<"not">> \o SelfExists(r))
\* the iteration was dispatched, and not skipped
WasDispatched(l) == l # <<>> /\ HasEv(l, "dispatch") /\ ~ HasEv(l, "skip")
\* the iteration was skipped, and not dispatched
WasSkipped(l) ==
    l # <<>> /\ HasEv(l, "skip") /\ ~ HasEv(l, "dispatch") /\ EndOf(l).name = "Skipped"
\* the step is an iteration of the inner loop
Iteration == Running /\ <<ai', hi'>> # <<ai, hi>>

\* C26 as stated: once a stat action has registered its mapping under r on a
\* host, every later action guarded by eval(self.results['r']['exists']) is
\* dispatched on that host if the path existed and Skipped if not, and every
\* later action guarded by eval(not self.results['r']['exists']) the other way
\* round: of two such actions one is dispatched and the other is Skipped.
C26_Original ==
    [][\A r \in RegNames :
          (Iteration /\ results[hi][r].kind = "dict") =>
             /\ action.when = ExistsGuard(r) =>
                   IF results[hi][r].flag THEN WasDispatched(last') ELSE WasSkipped(last')
             /\ action.when = NotExistsGuard(r) =>
                   IF results[hi][r].flag THEN WasSkipped(last') ELSE WasDispatched(last')]_vars

\* C26 amended: a stat action that ends Succeeded registers exists = true iff
\* its test and its stat query both exited 0; while the host has no error and
\* r holds that mapping, an action guarded by
\* eval(self.results['r']['exists']) is dispatched if exists is true and
\* Skipped if not, and an action guarded by
\* eval(not self.results['r']['exists']) the other way round; on a host that
\* has failed in between (the dispatched action itself may fail) the later
\* action is passed over: neither dispatched nor Skipped.
C26_Guards ==
    [][/\ (Iteration /\ last' # <<>> /\ IsStat(action) /\ EndOf(last').name = "Succeeded") =>
             /\ results'[hi][action.register].kind = "dict"
             /\ results'[hi][action.register].flag <=>
                   (/\ Len(HandlerCmdSeq(last')) = 2
                    /\ \A i \in 1..2 : HandlerCmdSeq(last')[i].name = "exit0")
       /\ \A r \in RegNames :
             (Iteration /\ results[hi][r].kind = "dict") =>
                IF errors[hi] > 0 THEN last' = <<>>
                ELSE /\ action.when = ExistsGuard(r) =>
                           IF results[hi][r].flag THEN WasDispatched(last')
                           ELSE WasSkipped(last')
                     /\ action.when = NotExistsGuard(r) =>
                           IF results[hi][r].flag THEN WasSkipped(last')
                           ELSE WasDispatched(last')]_vars

\* the stat found the path on host 1, and the later action "if absent" was
\* skipped there
C26_Witness ==
    /\ ai = 2 /\ hi = 2
    /\ action.title = "if absent"
    /\ results[1]["r1"].kind = "dict" /\ results[1]["r1"].flag
    /\ errors[1] = 0
    /\ WasSkipped(last)
    /\ last[1].h = 1

\* the command line goes through the shell wrap
Wrapped(cmdline) == Contains(cmdline, <<"/bin/bash -c ">>)

\* C27: no transport command of a stat_dir / stat_file handler goes through
\* the shell wrap, on the first host as on the later ones, although the action
\* declares wrap_bash = true; a stat handler that passes its parameter checks
\* leaves wrap_bash = false in the Action that the next host gets, and
\* processing an action on a host changes no other field of the Action, and
\* wrap_bash only in that case.
C27_WrapOverride ==
    [][(Iteration /\ last' # <<>>) =>
          /\ IsStat(action) =>
                \A i \in HandlerCmds(last') : ~ Wrapped(last'[i].cmd)
          /\ hi < NumHosts =>
                /\ action' = [action EXCEPT !.wrap_bash = action'.wrap_bash]
                /\ action'.wrap_bash # action.wrap_bash =>
                      IsStat(action) /\ HandlerCmds(last') # {}
                /\ (IsStat(action) /\ HasEv(last', "dispatch") /\ ~ LacksRequired(action))
                      => ~ action'.wrap_bash]_vars

\* the first host has run the two commands of a stat action that declares
\* wrap_bash = true, both without the shell wrap, and the Action the second
\* host gets has wrap_bash = false
C27_Witness ==
    /\ ai = 1 /\ hi = 2
    /\ IsStat(action)
    /\ ~ action.wrap_bash
    /\ \E c \in Catalogue : c.title = action.title /\ c.wrap_bash
    /\ last # <<>>
    /\ last[1].h = 1
    /\ Len(HandlerCmdSeq(last)) = 2
    /\ \A i \in 1..2 : ~ Wrapped(HandlerCmdSeq(last)[i].cmd)

\* the Action of the current iteration as load_actions built it
Loaded == CHOOSE c \in Catalogue : c.title = action.title

\* what processing action a at position i on host h does, given nothing but
\* the host's own counter e and registry reg and the outcomes outs of its own
\* transport commands: the trace, the counter and the registry afterwards
Alone(a, i, h, e, reg, outs) ==
    The({[last |-> Append(m.log, Ev(m, "end", m.exc, <<>>, Terminal(m), VInt(m.k))),
          errors |-> IF m.exc # "" THEN e + 1 ELSE e,
          results |-> m.results] :
         m \in {run_action(
                   [a |-> i, h |-> h, dry |-> dry_run, results |-> reg,
                    log |-> <<[ev |-> "begin", a |-> i, h |-> h, by |-> "", cmd |-> <<>>,
                               expr |-> <<>>, name |-> a.type, val |-> VInt(e)]>>,
                    wrap |-> a.wrap_bash, k |-> 0, outs |-> outs, exc |-> "",
                    ret |-> VNone], a)}})

\* the outcomes of the host's own commands as far as the trace l shows them:
\* command number k exited non-zero iff its outcome is 0 (0 as well for a slot
\* not used); the answer of a command whose output was registered is the one
\* that gives the registered text, and any other answer is taken as 1
OwnOutcomes(l, slots) ==
    LET IsCmd(i) == l[i].ev = "cmd"
        Gives(i, r) == l[i + 1].val = VStr(Reply(l[i].cmd, r))
    IN  The({[k \in 1..slots |->
                IF k > Len(at) THEN 0
                ELSE IF l[at[k]].name = "exit1" THEN 0
                ELSE IF at[k] < Len(l) /\ l[at[k] + 1].ev = "reg"
                THEN The({IF rs = {} THEN 1 ELSE CHOOSE r \in rs : TRUE :
                          rs \in {{r \in 1..NumReplies : Gives(at[k], r)}}})
                ELSE 1] :
             at \in {SelectSeq([i \in 1..Len(l) |-> i], IsCmd)}})

\* C28: hosts do not influence each other.  What an iteration does for its
\* host (the transport commands it issues, the counter and the registry it
\* leaves) is what processing the action as loaded does given only that
\* host's own counter and registry and the outcomes of that host's own
\* commands, and the iteration leaves the counter and the registry of every
\* other host as they are.  Two runs over the same actions that differ only in
\* the outcomes observed for host A therefore issue the same commands for
\* host B and leave B the same counter and registry.
C28_NonInterference ==
    [][Iteration =>
          /\ OthersUntouched
          /\ IF errors[hi] > 0
             THEN last' = <<>> /\ errors'[hi] = errors[hi] /\ results'[hi] = results[hi]
             ELSE \E a \in {Loaded} :
                  \E outs \in {OwnOutcomes(last', CmdSlots(a))} :
                     \E r \in {Alone(a, ai, hi, errors[hi], results[hi], outs)} :
                        /\ last' = r.last
                        /\ errors'[hi] = r.errors
                        /\ results'[hi] = r.results]_vars

\* host 1 failed the first action and has nothing registered; host 2 ran a
\* later stat action, after host 1 was passed over, and registered its result
C28_Witness ==
    /\ ai > 2
    /\ errors[1] = 1 /\ results[1] = EmptyResults
    /\ errors[2] = 0 /\ results[2]["r1"].kind = "dict"
    /\ last # <<>>
    /\ last[1].h = 2
    /\ ~ action.wrap_bash

\* C29: in every state of a run the error counter of every host is 0 or 1,
\* and no step decreases it.
C29_Counter ==
    /\ [](\A h \in Hosts : errors[h] \in {0, 1})
    /\ [][\A h \in Hosts : errors'[h] >= errors[h]]_vars

\* every host has failed once; the last iteration of the run passed over the
\* last host, and every counter is still 1
C29_Witness ==
    /\ ~ Running
    /\ last = <<>>
    /\ \A h \in Hosts : errors[h] = 1

\* C30: the type of an action is checked only after its guard has passed.  An
\* action of unknown type whose guard evaluates falsy is Skipped: no error, no
\* handler command, counter and registry of the host unchanged; and when an
\* action of unknown type fails for its type, its guard, if it has one, was
\* evaluated before and was truthy.
C30_SkipUnknown ==
    [][(Iteration /\ last' # <<>> /\ action.type \notin KnownTypes) =>
          /\ (\E i \in 1..Len(last') : last'[i].ev = "guarded" /\ ~ Truthy(last'[i].val)) =>
                /\ WasSkipped(last')
                /\ EndOf(last').by = ""
                /\ HandlerCmds(last') = {}
                /\ errors' = errors
                /\ results' = results
          /\ EndOf(last').by = "Exception" =>
                /\ HasEv(last', "dispatch")
                /\ action.when # <<>> =>
                      \E i \in 1..Len(last') : last'[i].ev = "guarded" /\ Truthy(last'[i].val)]_vars

\* the action "template never", of unknown type, was skipped by its guard
\* eval(False), and the host has no error
C30_Witness ==
    /\ last # <<>>
    /\ last[1].name = "template"
    /\ \E i \in 1..Len(last) : last[i].ev = "guarded" /\ last[i].val = VBool(FALSE)
    /\ WasSkipped(last)
    /\ errors[last[1].h] = 0

\* C31: evaluating a path-existence guard never writes to the host's result
\* registry: after the guard the registry is what it was before, whether the
\* guarded action declares a register or not and whether the remote test
\* exited zero or non-zero; the guard's value is the test's result, negated
\* for the not_ forms.
C31_GuardFrame ==
    (input.fn = "path_guard" /\ output # Pending) =>
        /\ output.exc = ""
        /\ output.cmds = 1
        /\ output.reg = [EmptyResults EXCEPT !["r1"] = input.before]
        /\ output.val = VBool((input.out # 0) # (input.expression[1] \in
                                                  {"not_exists_dir", "not_exists_file"}))

\* the guard exists_dir('/srv') of an action registering under r1 was
\* evaluated, the test exited zero, and r1 had a value before
C31_Witness ==
    /\ input.fn = "path_guard"
    /\ input.expression[1] = "exists_dir"
    /\ input.register = "r1"
    /\ input.before = VStr(<<"old">>)
    /\ input.out = 1
    /\ output # Pending
    /\ output.val = VBool(TRUE)
    /\ output.reg["r1"] = VStr(<<"old">>)

\* C32: registry writes of a failed action are not rolled back.  When a command
\* action that declares a register fails on its k-th executed item, k > 1, the
\* iteration ends Failed, the register holds the output of item k - 1 after the
\* failure, the last write of the iteration precedes the failing command, and
\* the register does not hold an output of the failing item.
C32_NoRollback ==
    [][(last' # <<>> /\ action.type = "command" /\ action.register # ""
          /\ HasEv(last', "dispatch")) =>
          LET cmds == HandlerCmdSeq(last')
              k == Len(cmds)
              failing == CHOOSE i \in FailedCmds(last') : TRUE
          IN  (k > 1 /\ cmds[k].name = "exit1") =>
                 /\ EndOf(last').name = "Failed"
                 /\ errors'[hi] = errors[hi] + 1
                 /\ \E r \in 1..NumReplies :
                       results'[hi][action.register] = VStr(Reply(cmds[k - 1].cmd, r))
                 /\ \A r \in 1..NumReplies :
                       results'[hi][action.register] # VStr(Reply(cmds[k].cmd, r))
                 /\ \A i \in 1..Len(last') : last'[i].ev = "reg" => i < failing]_vars

\* the second command of an action failed on a host after the first one had
\* answered: the host is counted as failed and its register holds the first
\* command's output
C32_Witness ==
    /\ last # <<>>
    /\ last[1].name = "command"
    /\ Len(HandlerCmdSeq(last)) = 2
    /\ HandlerCmdSeq(last)[1].name = "exit0"
    /\ HandlerCmdSeq(last)[2].name = "exit1"
    /\ EndOf(last).name = "Failed"
    /\ errors[last[1].h] = 1
    /\ results[last[1].h]["r1"] = VStr(Reply(HandlerCmdSeq(last)[1].cmd, 1))

\* the texts of an action that are rendered or evaluated
ActionTexts(a) ==
    <<a.when, a.extra.path, a.extra.destination, a.extra.chdir>> \o a.items

\* every template variable of the action is a variable of the host
VarsDefined(a, h) ==
    \A i \in 1..Len(ActionTexts(a)) : ~ Undefined(ActionTexts(a)[i], HostContext(h))

\* every registry name the guard or an item of the action looks up holds the
\* result of a stat action in the registry reg
NamesDefined(a, reg) ==
    \A n \in RegNames :
       (\E i \in 1..Len(ActionTexts(a)) : FindTok(ActionTexts(a)[i], n, 1) # 0)
          => reg[n].kind = "dict"

\* the action has a known type, the parameters its handler requires, and
\* files to copy that exist
ParamsPresent(a) ==
    /\ a.type \in KnownTypes
    /\ ~ LacksRequired(a)
    /\ (a.type = "copy" => \A i \in 1..Len(a.items) : a.items[i] \in LocalFiles)

\* C33: in a dry run no transport subprocess is started, and every action
\* whose required parameters are present and whose variables are defined ends
\* Skipped or Succeeded on every host, stat_dir and stat_file included, and
\* leaves the host's error counter at 0.
C33_Original ==
    [][(dry_run /\ last' # <<>> /\ ParamsPresent(action) /\ VarsDefined(action, hi)
          /\ NamesDefined(action, results[hi])) =>
          /\ ~ HasEv(last', "cmd")
          /\ EndOf(last').name \in {"Skipped", "Succeeded"}
          /\ errors'[hi] = 0]_vars

====
